---- MODULE Spec2Model ----
(***************************************************************************)
(* Model of the mockup composition engine of src/mockup_cli/cli.py:        *)
(* RenderConfig.from_dict, the pipeline stages (ensure_rgba,               *)
(* resize_with_aspect, rotate_image_rgba, apply_opacity, blend_normal,     *)
(* blend_numpy, paste_overlay) and the two entry points render_one and     *)
(* render_one_rect_pixels.                                                 *)
(*                                                                         *)
(* A raster is a record [obj, mode, size, px]: obj is the identity of the  *)
(* Python object (the path of operations that created it), mode the PIL    *)
(* mode, size = <<w, h>> and px a function from <<x, y>> to a 4-tuple of   *)
(* 8-bit channels <<r, g, b, a>>.                                          *)
(*                                                                         *)
(* Arithmetic is modelled as the code computes it:                         *)
(*  - Python round() is round-half-to-even on exact rationals (for the     *)
(*    sizes of this model, dimensions up to 14, the double computation of  *)
(*    the source gives the same integers);                                 *)
(*  - numpy float32 arithmetic is modelled bit-exactly (F32* operators):   *)
(*    a non-negative float32 is [m, e] with value m * 2^e and              *)
(*    2^23 <= m < 2^24, or m = 0;                                          *)
(*  - PIL's Image.alpha_composite is its 8-bit integer formula.            *)
(***************************************************************************)
EXTENDS Integers, Sequences, FiniteSets, TLC

\* ------------------------------------------------------------------------
\* Bounds of the model
\* ------------------------------------------------------------------------

\* largest width and height of a mockup or design raster
MaxDim == 3

\* ------------------------------------------------------------------------
\* Integer helpers
\* ------------------------------------------------------------------------

Max(a, b) == IF a >= b THEN a ELSE b

Min(a, b) == IF a <= b THEN a ELSE b

Abs(a) == IF a < 0 THEN -a ELSE a

\* floor(n / d) for d > 0 and any integer n
FloorDiv(n, d) == IF n >= 0 THEN n \div d ELSE -(((-n) + d - 1) \div d)

\* Python round(n / d) for d > 0: round half to even
round(n, d) ==
    LET f == FloorDiv(n, d)
        r == n - f * d
    IN  IF 2 * r > d THEN f + 1
        ELSE IF 2 * r < d THEN f
        ELSE IF f % 2 = 0 THEN f ELSE f + 1

\* ------------------------------------------------------------------------
\* IEEE-754 binary32 arithmetic on non-negative values (numpy float32)
\* ------------------------------------------------------------------------

F32Zero == [m |-> 0, e |-> 0]

F32One == [m |-> 8388608, e |-> -23]

RECURSIVE F32Norm(_, _)
\* exact value m * 2^e with 0 < m < 2^24, normalised
F32Norm(m, e) == IF m >= 8388608 THEN [m |-> m, e |-> e] ELSE F32Norm(2 * m, e - 1)

\* uint8 -> float32 (astype(np.float32)), exact
F32FromInt(k) == IF k = 0 THEN F32Zero ELSE F32Norm(k, 0)

\* round to nearest, ties to even: m has 24 bits, c compares the discarded
\* part with half an ulp (-1 below, 0 equal, 1 above)
F32Round(m, c, e) ==
    LET up == c = 1 \/ (c = 0 /\ m % 2 = 1)
        m2 == IF up THEN m + 1 ELSE m
    IN  IF m2 = 16777216 THEN [m |-> 8388608, e |-> e + 1] ELSE [m |-> m2, e |-> e]

RECURSIVE F32LongDiv(_, _, _, _)
\* n more quotient bits of r / d, q the bits so far
F32LongDiv(q, r, d, n) ==
    IF n = 0 THEN <<q, r>>
    ELSE IF 2 * r >= d THEN F32LongDiv(2 * q + 1, 2 * r - d, d, n - 1)
         ELSE F32LongDiv(2 * q, 2 * r, d, n - 1)

RECURSIVE F32DivScale(_, _, _)
\* double k until it reaches d: <<k * 2^t, t>>
F32DivScale(k, d, t) == IF k >= d THEN <<k, t>> ELSE F32DivScale(2 * k, d, t + 1)

\* the float32 nearest to k / d, for integers 0 <= k <= d, d > 0
F32Div(k, d) ==
    IF k = 0 THEN F32Zero
    ELSE LET s == F32DivScale(k, d, 0)
             qr == F32LongDiv(1, s[1] - d, d, 23)
             c == IF 2 * qr[2] > d THEN 1 ELSE IF 2 * qr[2] = d THEN 0 ELSE -1
         IN  F32Round(qr[1], c, -s[2] - 23)

\* x * y, correctly rounded; the 48-bit product is formed from 12-bit limbs
F32Mul(x, y) ==
    IF x.m = 0 \/ y.m = 0 THEN F32Zero
    ELSE LET a1 == x.m \div 4096
             a0 == x.m % 4096
             b1 == y.m \div 4096
             b0 == y.m % 4096
             mid == a0 * b1 + a1 * b0
             losum == (mid % 4096) * 4096 + a0 * b0
             lo == losum % 16777216
             hi == a1 * b1 + (mid \div 4096) + (losum \div 16777216)
         IN  IF hi >= 8388608
             THEN F32Round(hi,
                           IF lo > 8388608 THEN 1 ELSE IF lo = 8388608 THEN 0 ELSE -1,
                           x.e + y.e + 24)
             ELSE F32Round(2 * hi + (lo \div 8388608),
                           IF lo % 8388608 > 4194304 THEN 1
                           ELSE IF lo % 8388608 = 4194304 THEN 0 ELSE -1,
                           x.e + y.e + 23)

\* x <= y
F32Leq(x, y) ==
    \/ x.m = 0
    \/ y.m # 0 /\ (x.e < y.e \/ (x.e = y.e /\ x.m <= y.m))

F32Max(x, y) == IF F32Leq(x, y) THEN y ELSE x

F32Min(x, y) == IF F32Leq(x, y) THEN x ELSE y

\* x + y for x >= y > 0, correctly rounded (two guard bits and a sticky bit)
F32AddOrdered(x, y) ==
    LET d == x.e - y.e
    IN  IF d > 25 THEN x
        ELSE LET p == 2 ^ d
                 s == 4 * x.m + ((4 * y.m) \div p)
                 sticky == ((4 * y.m) % p) # 0
             IN  IF s >= 67108864
                 THEN F32Round(s \div 8,
                               IF s % 8 > 4 \/ (s % 8 = 4 /\ sticky) THEN 1
                               ELSE IF s % 8 = 4 THEN 0 ELSE -1,
                               x.e + 1)
                 ELSE F32Round(s \div 4,
                               IF s % 4 > 2 \/ (s % 4 = 2 /\ sticky) THEN 1
                               ELSE IF s % 4 = 2 THEN 0 ELSE -1,
                               x.e)

\* x + y
F32Add(x, y) ==
    IF x.m = 0 THEN y
    ELSE IF y.m = 0 THEN x
    ELSE IF F32Leq(y, x) THEN F32AddOrdered(x, y) ELSE F32AddOrdered(y, x)

\* 1.0 - x for 0 <= x <= 1, correctly rounded
F32OneMinus(x) ==
    IF x.m = 0 THEN F32One
    ELSE IF x.e >= -23 THEN F32Zero
    ELSE LET k == -24 - x.e
         IN  IF k > 25 THEN F32One
             ELSE LET p == 2 ^ k
                      q == x.m \div p
                      r == x.m % p
                  IN  IF r = 0 THEN F32Norm(16777216 - q, -24)
                      ELSE F32Round(16777215 - q,
                                    IF 2 * (p - r) > p THEN 1
                                    ELSE IF 2 * (p - r) = p THEN 0 ELSE -1,
                                    -24)

\* 2.0 * x, exact
F32Twice(x) == IF x.m = 0 THEN F32Zero ELSE [m |-> x.m, e |-> x.e + 1]

\* astype(np.uint8) of a value in [0, 256): truncation
F32Trunc(x) ==
    IF x.m = 0 THEN 0
    ELSE IF x.e >= 0 THEN x.m * (2 ^ x.e)
    ELSE IF -x.e > 30 THEN 0
    ELSE x.m \div (2 ^ (-x.e))

F32Half == [m |-> 8388608, e |-> -24]

F32Of255 == [m |-> 16711680, e |-> -16]

\* np.clip(v * 255.0, 0, 255).astype(np.uint8)
F32ToByte(x) ==
    LET v == F32Mul(x, F32Of255)
    IN  IF F32Leq(F32Of255, v) THEN 255 ELSE F32Trunc(v)

\* np.array(img).astype(np.float32) / 255.0 for each 8-bit value
Unit255 == [k \in 0 .. 255 |-> F32Div(k, 255)]

\* ------------------------------------------------------------------------
\* Rationals: a Python float argument is <<n, d>> with d > 0, value n / d
\* ------------------------------------------------------------------------

RatLt(a, b) == a[1] * b[2] < b[1] * a[2]

RatLeq(a, b) == a[1] * b[2] <= b[1] * a[2]

\* str.lower() on the strings of this model
lower(s) ==
    CASE s = "RECT" -> "rect"
      [] s = "Perspective" -> "perspective"
      [] s = "MULTIPLY" -> "multiply"
      [] s = "Screen" -> "screen"
      [] s = "COVER" -> "cover"
      [] OTHER -> s

\* dict.get(k, default)
get(d, k, default) == IF k \in DOMAIN d THEN d[k] ELSE default

\* ------------------------------------------------------------------------
\* Rasters (PIL.Image objects)
\* ------------------------------------------------------------------------

Pos(w, h) == (0 .. (w - 1)) \X (0 .. (h - 1))

Transparent == <<0, 0, 0, 0>>

NoRaster == [obj |-> <<>>, mode |-> "none", size |-> <<0, 0>>, px |-> <<>>]

\* Image.new("RGBA", size, (0, 0, 0, 0))
ImageNew(obj, size) ==
    [obj |-> obj, mode |-> "RGBA", size |-> size,
     px |-> [p \in Pos(size[1], size[2]) |-> Transparent]]

\* Image.copy(): a new object with the same pixels
ImageCopy(img) == [img EXCEPT !.obj = Append(img.obj, "copy")]

\* Image.convert("RGBA") of an RGB raster: a new object, opaque alpha added
ImageConvertRGBA(img) ==
    [obj |-> Append(img.obj, "convert"), mode |-> "RGBA", size |-> img.size,
     px |-> [p \in DOMAIN img.px |-> <<img.px[p][1], img.px[p][2], img.px[p][3], 255>>]]

ensure_rgba(img) == IF img.mode # "RGBA" THEN ImageConvertRGBA(img) ELSE img

\* Image.resize(size, LANCZOS): the same size gives a copy; otherwise a new
\* raster of the requested size whose pixel is the source pixel under its
\* centre (what any normalised resampling filter returns for the solid opaque
\* designs of this model)
ImageResize(img, size) ==
    IF img.size = size THEN ImageCopy(img)
    ELSE [obj |-> Append(img.obj, "resize"), mode |-> img.mode, size |-> size,
          px |-> [p \in Pos(size[1], size[2]) |->
                     img.px[<<((2 * p[1] + 1) * img.size[1]) \div (2 * size[1]),
                              ((2 * p[2] + 1) * img.size[2]) \div (2 * size[2])>>]]]

\* Image.transpose(ROTATE_90): counter-clockwise quarter turn
ImageRotate90(img) ==
    [obj |-> Append(img.obj, "rotate"), mode |-> img.mode,
     size |-> <<img.size[2], img.size[1]>>,
     px |-> [p \in Pos(img.size[2], img.size[1]) |->
                img.px[<<img.size[1] - 1 - p[2], p[1]>>]]]

\* Image.transpose(ROTATE_180)
ImageRotate180(img) ==
    [obj |-> Append(img.obj, "rotate"), mode |-> img.mode, size |-> img.size,
     px |-> [p \in Pos(img.size[1], img.size[2]) |->
                img.px[<<img.size[1] - 1 - p[1], img.size[2] - 1 - p[2]>>]]]

\* Image.transpose(ROTATE_270)
ImageRotate270(img) ==
    [obj |-> Append(img.obj, "rotate"), mode |-> img.mode,
     size |-> <<img.size[2], img.size[1]>>,
     px |-> [p \in Pos(img.size[2], img.size[1]) |->
                img.px[<<p[2], img.size[2] - 1 - p[1]>>]]]

\* Image.rotate(angle, expand=True) for a whole number of quarter turns
\* (PIL reduces the angle modulo 360 and takes its transpose fast paths;
\* a multiple of 360 gives a copy)
ImageRotate(img, angle) ==
    LET a == angle[1] % 360
    IN  CASE a = 0 -> ImageCopy(img)
          [] a = 90 -> ImageRotate90(img)
          [] a = 180 -> ImageRotate180(img)
          [] a = 270 -> ImageRotate270(img)

\* ------------------------------------------------------------------------
\* Pipeline stages
\* ------------------------------------------------------------------------

\* contain takes the larger scale
AspectScale_Swapped(src_w, src_h, target_w, target_h, mode) ==
    LET scale_w == <<target_w, src_w>>
        scale_h == <<target_h, src_h>>
    IN  IF mode = "cover"
        THEN IF RatLeq(scale_h, scale_w) THEN scale_w ELSE scale_h
        ELSE IF RatLeq(scale_h, scale_w) THEN scale_w ELSE scale_h

\* cover looks at the width only
AspectScale_WidthOnly(src_w, src_h, target_w, target_h, mode) ==
    LET scale_w == <<target_w, src_w>>
        scale_h == <<target_h, src_h>>
    IN  IF mode = "cover"
        THEN scale_w
        ELSE IF RatLeq(scale_w, scale_h) THEN scale_w ELSE scale_h

\* scale of resize_with_aspect: max(scale_w, scale_h) for cover, min otherwise
AspectScale(src_w, src_h, target_w, target_h, mode) ==
    LET scale_w == <<target_w, src_w>>
        scale_h == <<target_h, src_h>>
    IN  IF mode = "cover"
        THEN IF RatLeq(scale_h, scale_w) THEN scale_w ELSE scale_h
        ELSE IF RatLeq(scale_w, scale_h) THEN scale_w ELSE scale_h

resize_with_aspect(img, target_w, target_h, mode) ==
    LET src_w == img.size[1]
        src_h == img.size[2]
        scale == AspectScale(src_w, src_h, target_w, target_h, mode)
        new_w == Max(1, round(src_w * scale[1], scale[2]))
        new_h == Max(1, round(src_h * scale[1], scale[2]))
    IN  IF src_w = 0 \/ src_h = 0 THEN img
        ELSE IF mode = "stretch"
             THEN ImageResize(img, <<Max(1, target_w), Max(1, target_h)>>)
             ELSE ImageResize(img, <<new_w, new_h>>)

\* every whole turn is skipped
rotate_image_rgba_WholeTurns(img, rotation_deg) ==
    IF Abs(rotation_deg[1]) * 1000000 < rotation_deg[2]
       \/ (rotation_deg[2] = 1 /\ rotation_deg[1] % 360 = 0)
    THEN img
    ELSE ImageRotate(img, rotation_deg)

rotate_image_rgba(img, rotation_deg) ==
    IF Abs(rotation_deg[1]) * 1000000 < rotation_deg[2] THEN img
    ELSE ImageRotate(img, rotation_deg)

\* the sign is dropped instead of clamped
ClampOpacity_Abs(opacity) ==
    IF RatLt(<<1, 1>>, <<Abs(opacity[1]), opacity[2]>>) THEN <<1, 1>>
    ELSE <<Abs(opacity[1]), opacity[2]>>

\* max(0.0, min(1.0, float(opacity)))
ClampOpacity(opacity) ==
    IF RatLt(opacity, <<0, 1>>) THEN <<0, 1>>
    ELSE IF RatLt(<<1, 1>>, opacity) THEN <<1, 1>>
    ELSE opacity

\* a zero opacity is taken for "not given"
apply_opacity_ZeroIsDefault(img_rgba, opacity) ==
    LET op == IF opacity[1] = 0 THEN <<1, 1>> ELSE ClampOpacity(opacity)
        f == F32Div(op[1], op[2])
    IN  IF RatLeq(<<999, 1000>>, op) THEN img_rgba
        ELSE [obj |-> Append(img_rgba.obj, "opacity"), mode |-> "RGBA",
              size |-> img_rgba.size,
              px |-> [p \in DOMAIN img_rgba.px |->
                         <<img_rgba.px[p][1], img_rgba.px[p][2], img_rgba.px[p][3],
                           Min(255, F32Trunc(F32Mul(F32FromInt(img_rgba.px[p][4]), f)))>>]]

\* the colours are scaled with the alpha
apply_opacity_Premultiplied(img_rgba, opacity) ==
    LET op == ClampOpacity(opacity)
        f == F32Div(op[1], op[2])
        scaled(v) == Min(255, F32Trunc(F32Mul(F32FromInt(v), f)))
    IN  IF RatLeq(<<999, 1000>>, op) THEN img_rgba
        ELSE [obj |-> Append(img_rgba.obj, "opacity"), mode |-> "RGBA",
              size |-> img_rgba.size,
              px |-> [p \in DOMAIN img_rgba.px |->
                         <<scaled(img_rgba.px[p][1]), scaled(img_rgba.px[p][2]),
                           scaled(img_rgba.px[p][3]), scaled(img_rgba.px[p][4])>>]]

\* cli.py apply_opacity: the alpha band times the clamped opacity in float32,
\* truncated to uint8
apply_opacity(img_rgba, opacity) ==
    LET op == ClampOpacity(opacity)
        f == F32Div(op[1], op[2])
    IN  IF RatLeq(<<999, 1000>>, op) THEN img_rgba
        ELSE [obj |-> Append(img_rgba.obj, "opacity"), mode |-> "RGBA",
              size |-> img_rgba.size,
              px |-> [p \in DOMAIN img_rgba.px |->
                         <<img_rgba.px[p][1], img_rgba.px[p][2], img_rgba.px[p][3],
                           Min(255, F32Trunc(F32Mul(F32FromInt(img_rgba.px[p][4]), f)))>>]]

\* SHIFTFORDIV255 of PIL's ImagingAlphaComposite
ShiftForDiv255(a) == ((a \div 256) + a) \div 256

\* one pixel of Image.alpha_composite(dst, src): 8-bit integer "over"
AlphaCompositePixel(dst, src) ==
    IF src[4] = 0 THEN dst
    ELSE LET blend == dst[4] * (255 - src[4])
             outa255 == src[4] * 255 + blend
             coef1 == (src[4] * 255 * 255 * 128) \div outa255
             coef2 == 255 * 128 - coef1
             ch(i) == ShiftForDiv255(src[i] * coef1 + dst[i] * coef2 + 128 * 128) \div 128
         IN  <<ch(1), ch(2), ch(3), ShiftForDiv255(outa255 + 128)>>

blend_normal(base, overlay) ==
    [obj |-> base.obj \o overlay.obj \o <<"alpha_composite">>, mode |-> "RGBA",
     size |-> base.size,
     px |-> [p \in DOMAIN base.px |-> AlphaCompositePixel(base.px[p], overlay.px[p])]]

\* the overlay mask is taken on the overlay value
BlendF_MaskOnOverlay(mode, b, o) ==
    CASE mode = "multiply" -> F32Mul(b, o)
      [] mode = "screen" -> F32OneMinus(F32Mul(F32OneMinus(b), F32OneMinus(o)))
      [] mode = "overlay" ->
            IF F32Leq(o, F32Half)
            THEN F32Mul(F32Twice(b), o)
            ELSE F32OneMinus(F32Mul(F32Twice(F32OneMinus(b)), F32OneMinus(o)))
      [] mode = "lighten" -> F32Max(b, o)
      [] mode = "darken" -> F32Min(b, o)
      [] OTHER -> o

\* f_rgb of blend_numpy for one channel, in float32
BlendF(mode, b, o) ==
    CASE mode = "multiply" -> F32Mul(b, o)
      [] mode = "screen" -> F32OneMinus(F32Mul(F32OneMinus(b), F32OneMinus(o)))
      [] mode = "overlay" ->
            IF F32Leq(b, F32Half)
            THEN F32Mul(F32Twice(b), o)
            ELSE F32OneMinus(F32Mul(F32Twice(F32OneMinus(b)), F32OneMinus(o)))
      [] mode = "lighten" -> F32Max(b, o)
      [] mode = "darken" -> F32Min(b, o)
      [] OTHER -> o

\* the base colour is added without the weight (1 - o_a)
BlendNumpyPixel_NoBaseWeight(bp, op, mode) ==
    LET b_a == Unit255[bp[4]]
        o_a == Unit255[op[4]]
        na == F32OneMinus(o_a)
        rgb(i) == LET b == Unit255[bp[i]]
                      o == Unit255[op[i]]
                  IN  F32ToByte(F32Add(F32Mul(BlendF(mode, b, o), o_a), b))
        out_a == F32ToByte(F32Add(o_a, F32Mul(b_a, na)))
    IN  <<rgb(1), rgb(2), rgb(3), out_a>>

\* the output alpha is the overlay's
BlendNumpyPixel_OverlayAlpha(bp, op, mode) ==
    LET o_a == Unit255[op[4]]
        na == F32OneMinus(o_a)
        rgb(i) == LET b == Unit255[bp[i]]
                      o == Unit255[op[i]]
                  IN  F32ToByte(F32Add(F32Mul(BlendF(mode, b, o), o_a), F32Mul(b, na)))
    IN  <<rgb(1), rgb(2), rgb(3), F32ToByte(o_a)>>

\* one pixel of blend_numpy
BlendNumpyPixel(bp, op, mode) ==
    LET b_a == Unit255[bp[4]]
        o_a == Unit255[op[4]]
        na == F32OneMinus(o_a)
        rgb(i) == LET b == Unit255[bp[i]]
                      o == Unit255[op[i]]
                  IN  F32ToByte(F32Add(F32Mul(BlendF(mode, b, o), o_a), F32Mul(b, na)))
        out_a == F32ToByte(F32Add(o_a, F32Mul(b_a, na)))
    IN  <<rgb(1), rgb(2), rgb(3), out_a>>

blend_numpy(base, overlay, mode) ==
    LET base_rgba == ensure_rgba(base)
        over_rgba == ensure_rgba(overlay)
    IN  [obj |-> base_rgba.obj \o over_rgba.obj \o <<"blend_numpy">>, mode |-> "RGBA",
         size |-> base_rgba.size,
         px |-> [p \in DOMAIN base_rgba.px |->
                    BlendNumpyPixel(base_rgba.px[p], over_rgba.px[p], mode)]]

\* int(c - o / 2): truncation toward zero instead of round
PasteOrigin_Trunc(center_xy, osize) ==
    LET t(n) == IF n >= 0 THEN n \div 2 ELSE -((-n) \div 2)
    IN  <<t(2 * center_xy[1] - osize[1]), t(2 * center_xy[2] - osize[2])>>

\* x0, y0 of paste_overlay: int(round(c - o / 2))
PasteOrigin(center_xy, osize) ==
    <<round(2 * center_xy[1] - osize[1], 2), round(2 * center_xy[2] - osize[2], 2)>>

\* canvas.alpha_composite(overlay, dest): in place, clipped to the canvas
CanvasComposite(canvas, overlay, dest) ==
    [canvas EXCEPT !.px =
        [p \in DOMAIN canvas.px |->
            LET q == <<p[1] - dest[1], p[2] - dest[2]>>
            IN  IF q \in DOMAIN overlay.px
                THEN AlphaCompositePixel(canvas.px[p], overlay.px[q])
                ELSE canvas.px[p]]]

NumpyModes == {"multiply", "screen", "overlay", "lighten", "darken"}

\* the canvas, and with it the result, takes the overlay's size
paste_overlay_OverlaySized(mockup_rgba, overlay_rgba, center_xy, blend_mode) ==
    LET canvas == CanvasComposite(ImageNew(<<"canvas">>, overlay_rgba.size), overlay_rgba,
                                  PasteOrigin(center_xy, overlay_rgba.size))
        base == ImageResize(mockup_rgba, overlay_rgba.size)
        bm == lower(blend_mode)
    IN  IF bm = "normal" THEN blend_normal(base, canvas)
        ELSE IF bm \in NumpyModes THEN blend_numpy(base, canvas, bm)
        ELSE blend_normal(base, canvas)

\* an unrecognized mode is handed on to blend_numpy
paste_overlay_Passthrough(mockup_rgba, overlay_rgba, center_xy, blend_mode) ==
    LET canvas == CanvasComposite(ImageNew(<<"canvas">>, mockup_rgba.size), overlay_rgba,
                                  PasteOrigin(center_xy, overlay_rgba.size))
        bm == lower(blend_mode)
    IN  IF bm = "normal" THEN blend_normal(mockup_rgba, canvas)
        ELSE blend_numpy(mockup_rgba, canvas, bm)

\* the blend step of paste_overlay: the canvas blended onto the mockup
PasteBlend(mockup_rgba, canvas, blend_mode) ==
    LET bm == lower(blend_mode)
    IN  IF bm = "normal" THEN blend_normal(mockup_rgba, canvas)
        ELSE IF bm \in NumpyModes THEN blend_numpy(mockup_rgba, canvas, bm)
        ELSE blend_normal(mockup_rgba, canvas)

paste_overlay(mockup_rgba, overlay_rgba, center_xy, blend_mode) ==
    LET canvas == CanvasComposite(ImageNew(<<"canvas">>, mockup_rgba.size), overlay_rgba,
                                  PasteOrigin(center_xy, overlay_rgba.size))
    IN  PasteBlend(mockup_rgba, canvas, blend_mode)

\* ------------------------------------------------------------------------
\* Data models
\* ------------------------------------------------------------------------

RectPlacement(center_x_norm, center_y_norm, width_norm, height_norm, rotation_deg) ==
    [center_x_norm |-> center_x_norm, center_y_norm |-> center_y_norm,
     width_norm |-> width_norm, height_norm |-> height_norm,
     rotation_deg |-> rotation_deg]

PerspectivePlacement(quad_norm) == [quad_norm |-> quad_norm]

\* isinstance(p, RectPlacement)
IsRectPlacement(p) == "center_x_norm" \in DOMAIN p

\* isinstance(p, PerspectivePlacement)
IsPerspectivePlacement(p) == "quad_norm" \in DOMAIN p

RenderConfig(mode, placement, blend_mode, opacity, maintain_aspect) ==
    [mode |-> mode, placement |-> placement, blend_mode |-> blend_mode,
     opacity |-> opacity, maintain_aspect |-> maintain_aspect]

NoConfig == [mode |-> "none"]

\* the empty dict {}
EmptyDict == [k \in {} |-> 0]

\* a missing maintain_aspect is taken as cover
from_dict_CoverDefault(data) ==
    LET mode == lower(get(data, "mode", "rect"))
        p == get(data, "placement", EmptyDict)
        quad == get(p, "quad_norm", <<>>)
        placement ==
            IF mode = "rect"
            THEN RectPlacement(get(p, "center_x_norm", <<1, 2>>),
                               get(p, "center_y_norm", <<1, 2>>),
                               get(p, "width_norm", <<1, 2>>),
                               get(p, "height_norm", <<1, 2>>),
                               get(p, "rotation_deg", <<0, 1>>))
            ELSE PerspectivePlacement(quad)
    IN  IF mode = "rect" \/ (mode = "perspective" /\ Len(quad) = 4)
        THEN [cfg |-> RenderConfig(mode, placement,
                                   lower(get(data, "blend_mode", "normal")),
                                   get(data, "opacity", <<1, 1>>),
                                   lower(get(data, "maintain_aspect", "cover"))),
              err |-> "none"]
        ELSE [cfg |-> NoConfig, err |-> "ValueError"]

\* RenderConfig.from_dict: the config, or the error raised
from_dict(data) ==
    LET mode == lower(get(data, "mode", "rect"))
        p == get(data, "placement", EmptyDict)
        quad == get(p, "quad_norm", <<>>)
        placement ==
            IF mode = "rect"
            THEN RectPlacement(get(p, "center_x_norm", <<1, 2>>),
                               get(p, "center_y_norm", <<1, 2>>),
                               get(p, "width_norm", <<1, 2>>),
                               get(p, "height_norm", <<1, 2>>),
                               get(p, "rotation_deg", <<0, 1>>))
            ELSE PerspectivePlacement(quad)
    IN  IF mode = "rect" \/ (mode = "perspective" /\ Len(quad) = 4)
        THEN [cfg |-> RenderConfig(mode, placement,
                                   lower(get(data, "blend_mode", "normal")),
                                   get(data, "opacity", <<1, 1>>),
                                   lower(get(data, "maintain_aspect", "contain"))),
              err |-> "none"]
        ELSE [cfg |-> NoConfig, err |-> "ValueError"]

\* ------------------------------------------------------------------------
\* Perspective warp (cv2.getPerspectiveTransform + cv2.warpPerspective)
\* ------------------------------------------------------------------------

\* The quads warped in this model are axis-aligned rectangles given as
\* top-left, top-right, bottom-right, bottom-left, and the designs are at
\* least 2 x 2 (the homography of a 1-pixel design is singular).

\* the source coordinate of destination coordinate X on one axis, in units
\* of 1/32 (INTER_TAB_SIZE): the homography maps source 0 .. n-1 onto
\* lo*m .. hi*m
WarpCoord(X, lo, hi, m, n) ==
    round(32 * (X * lo[2] - lo[1] * m) * (n - 1) * hi[2],
          (hi[1] * lo[2] - lo[1] * hi[2]) * m)

\* the source pixel, or the transparent border value outside the source
WarpSample(design, i, j) ==
    IF <<i, j>> \in DOMAIN design.px THEN design.px[<<i, j>>] ELSE Transparent

\* the design warped onto a canvas of the mockup's size: INTER_LINEAR in
\* fixed point between the four neighbours of the source coordinate
WarpPerspective(design, quad_norm, mw, mh) ==
    LET dw == design.size[1]
        dh == design.size[2]
        xlo == quad_norm[1][1]
        xhi == quad_norm[2][1]
        ylo == quad_norm[1][2]
        yhi == quad_norm[4][2]
    IN  [obj |-> Append(design.obj, "warp"), mode |-> "RGBA", size |-> <<mw, mh>>,
         px |-> [p \in Pos(mw, mh) |->
                    LET x32 == WarpCoord(p[1], xlo, xhi, mw, dw)
                        y32 == WarpCoord(p[2], ylo, yhi, mh, dh)
                        ix == FloorDiv(x32, 32)
                        iy == FloorDiv(y32, 32)
                        ax == x32 - 32 * ix
                        ay == y32 - 32 * iy
                        ch(i) == (32 * ((32 - ax) * (32 - ay) * WarpSample(design, ix, iy)[i]
                                        + ax * (32 - ay) * WarpSample(design, ix + 1, iy)[i]
                                        + (32 - ax) * ay * WarpSample(design, ix, iy + 1)[i]
                                        + ax * ay * WarpSample(design, ix + 1, iy + 1)[i])
                                  + 16384) \div 32768
                    IN  <<ch(1), ch(2), ch(3), ch(4)>>]]

\* ------------------------------------------------------------------------
\* Core rendering
\* ------------------------------------------------------------------------

\* int() instead of round(): truncation toward zero
ResolveRect_Trunc(rp, mw, mh) ==
    LET t(n, d) == IF n >= 0 THEN n \div d ELSE -((-n) \div d)
    IN  [tw |-> Max(1, t(rp.width_norm[1] * mw, rp.width_norm[2])),
         th |-> Max(1, t(rp.height_norm[1] * mh, rp.height_norm[2])),
         cx |-> t(rp.center_x_norm[1] * mw, rp.center_x_norm[2]),
         cy |-> t(rp.center_y_norm[1] * mh, rp.center_y_norm[2])]

\* the sizes are not floored to 1
ResolveRect_NoFloor(rp, mw, mh) ==
    [tw |-> round(rp.width_norm[1] * mw, rp.width_norm[2]),
     th |-> round(rp.height_norm[1] * mh, rp.height_norm[2]),
     cx |-> round(rp.center_x_norm[1] * mw, rp.center_x_norm[2]),
     cy |-> round(rp.center_y_norm[1] * mh, rp.center_y_norm[2])]

\* target rect in pixels of render_one's rect mode
ResolveRect(rp, mw, mh) ==
    [tw |-> Max(1, round(rp.width_norm[1] * mw, rp.width_norm[2])),
     th |-> Max(1, round(rp.height_norm[1] * mh, rp.height_norm[2])),
     cx |-> round(rp.center_x_norm[1] * mw, rp.center_x_norm[2]),
     cy |-> round(rp.center_y_norm[1] * mh, rp.center_y_norm[2])]

\* Image.open of the two files, in the order of the code
OpenBoth(mockup_path, design_path) == <<mockup_path.obj[1], design_path.obj[1]>>

Raised(e, opened) == [out |-> NoRaster, err |-> e, opened |-> opened]

Returned(img, opened) == [out |-> img, err |-> "none", opened |-> opened]

\* render_one: the raster returned or the error raised, and the files opened
\* by then
render_one(mockup_path, design_path, config) ==
    LET mockup == ensure_rgba(mockup_path)
        design == ensure_rgba(design_path)
        opened == OpenBoth(mockup_path, design_path)
        mw == mockup.size[1]
        mh == mockup.size[2]
        rp == config.placement
        r == ResolveRect(rp, mw, mh)
        resized == resize_with_aspect(design, r.tw, r.th, config.maintain_aspect)
        rotated == rotate_image_rgba(resized, rp.rotation_deg)
        overlay == apply_opacity(rotated, config.opacity)
        warped == WarpPerspective(design, rp.quad_norm, mw, mh)
        poverlay == apply_opacity(warped, config.opacity)
        bm == config.blend_mode
    IN  IF config.mode = "rect"
        THEN IF ~IsRectPlacement(rp) THEN Raised("AssertionError", opened)
             ELSE Returned(paste_overlay(mockup, overlay, <<r.cx, r.cy>>, config.blend_mode),
                           opened)
        ELSE IF config.mode = "perspective"
        THEN IF ~IsPerspectivePlacement(rp) THEN Raised("AssertionError", opened)
             ELSE IF Len(rp.quad_norm) < 4 THEN Raised("IndexError", opened)
             ELSE IF bm = "normal" THEN Returned(blend_normal(mockup, poverlay), opened)
             ELSE IF bm \in NumpyModes THEN Returned(blend_numpy(mockup, poverlay, bm), opened)
             ELSE Returned(blend_normal(mockup, poverlay), opened)
        ELSE Raised("ValueError", opened)

render_one_rect_pixels(mockup_path, design_path, center_x_px, center_y_px, target_width_px, target_height_px, rotation_deg, maintain_aspect, opacity, blend_mode) ==
    LET mockup == ensure_rgba(mockup_path)
        design == ensure_rgba(design_path)
        resized == resize_with_aspect(design, target_width_px, target_height_px,
                                      maintain_aspect)
        rotated == rotate_image_rgba(resized, rotation_deg)
        overlay == apply_opacity(rotated, opacity)
    IN  Returned(paste_overlay(mockup, overlay, <<center_x_px, center_y_px>>, blend_mode),
                 OpenBoth(mockup_path, design_path))

\* ------------------------------------------------------------------------
\* Inputs of the model
\* ------------------------------------------------------------------------

\* an image file: a raster named after its path
ImageFile(path, mode, size, px) == [obj |-> <<path>>, mode |-> mode, size |-> size, px |-> px]

\* pixels of one colour
Solid(size, c) == [p \in Pos(size[1], size[2]) |-> c]

\* opaque grey shades without an alpha channel
GrayRGB(size) == [p \in Pos(size[1], size[2]) |-> <<200 - 20 * p[1], 200 - 20 * p[2], 200>>]

\* colours with alternating alpha 255 and 128
Glass(size) ==
    [p \in Pos(size[1], size[2]) |->
        <<10 + 60 * p[1], 200, 30 + 50 * p[2], IF (p[1] + p[2]) % 2 = 0 THEN 255 ELSE 128>>]

\* design files: solid and opaque, at least 2 x 2
Designs ==
    {ImageFile("design", "RGBA", <<2, MaxDim>>, Solid(<<2, MaxDim>>, <<255, 0, 0, 255>>)),
     ImageFile("design", "RGB", <<MaxDim, MaxDim>>, Solid(<<MaxDim, MaxDim>>, <<0, 0, 255>>))}

\* mockup files
Mockups ==
    {ImageFile("mockup", "RGB", <<MaxDim, 2>>, GrayRGB(<<MaxDim, 2>>)),
     ImageFile("mockup", "RGBA", <<MaxDim - 1, MaxDim>>, Glass(<<MaxDim - 1, MaxDim>>))}

BlendModes == {"normal", "multiply", "screen", "overlay", "lighten", "darken", "dissolve"}

AspectModes == {"contain", "cover", "stretch"}

\* blend mode and opacity
Appearances ==
    {<<bm, <<0, 1>>>> : bm \in BlendModes}
    \cup {<<"normal", <<1, 1>>>>, <<"normal", <<1, 2>>>>, <<"multiply", <<1, 1>>>>,
          <<"overlay", <<1, 2>>>>, <<"dissolve", <<1, 2>>>>}

Rotations == {<<0, 1>>, <<90, 1>>, <<5, 10000000>>}

CenterXNorms == {<<1, 2>>, <<0, 1>>, <<5, 4>>}

CenterYNorms == {<<1, 2>>, <<-1, 4>>}

WidthNorms == {<<1, 2>>, <<0, 1>>, <<3, 2>>}

HeightNorms == {<<1, 1>>}

FullQuad == <<<<<<0, 1>>, <<0, 1>>>>, <<<<1, 1>>, <<0, 1>>>>,
              <<<<1, 1>>, <<1, 1>>>>, <<<<0, 1>>, <<1, 1>>>>>>

HalfQuad == <<<<<<0, 1>>, <<0, 1>>>>, <<<<1, 2>>, <<0, 1>>>>,
              <<<<1, 2>>, <<1, 2>>>>, <<<<0, 1>>, <<1, 2>>>>>>

Quads == {FullQuad, HalfQuad}

\* quads without exactly 4 points
BadQuads == {<<>>, SubSeq(FullQuad, 1, 3), Append(FullQuad, <<<<1, 2>>, <<1, 2>>>>)}

RectDicts ==
    {[mode |-> "rect",
      placement |-> [center_x_norm |-> cx, center_y_norm |-> cy, width_norm |-> wn,
                     height_norm |-> hn, rotation_deg |-> rot],
      blend_mode |-> ap[1], opacity |-> ap[2], maintain_aspect |-> asp] :
        cx \in CenterXNorms, cy \in CenterYNorms, wn \in WidthNorms, hn \in HeightNorms,
        rot \in Rotations, ap \in Appearances, asp \in AspectModes}

PerspectiveDicts ==
    {[mode |-> "perspective", placement |-> [quad_norm |-> q], blend_mode |-> ap[1],
      opacity |-> ap[2]] : q \in Quads \cup BadQuads, ap \in Appearances}

\* dicts with missing, unknown, upper-case or out-of-range fields
OddDicts ==
    {EmptyDict,
     [mode |-> "RECT", blend_mode |-> "MULTIPLY", maintain_aspect |-> "COVER"],
     [mode |-> "rect", opacity |-> <<-3, 10>>, comment |-> "x"],
     [mode |-> "rect", placement |-> [width_norm |-> <<3, 2>>, skew |-> <<1, 1>>],
      blend_mode |-> "multiply"],
     [mode |-> "rect", opacity |-> <<17, 10>>, blend_mode |-> "Screen"],
     [mode |-> "Perspective", placement |-> [quad_norm |-> FullQuad]],
     [mode |-> "perspective"],
     [mode |-> "polar"],
     [mode |-> "polar", placement |-> [quad_norm |-> FullQuad]]}

Dicts == RectDicts \cup PerspectiveDicts \cup OddDicts

\* configs built with the RenderConfig constructor, which validates nothing
DirectConfigs ==
    {RenderConfig(m, PerspectivePlacement(q), bm, <<1, 1>>, "contain") :
        m \in {"perspective", "polar"}, q \in Quads \cup BadQuads,
        bm \in {"normal", "MULTIPLY"}}
    \cup {RenderConfig(m, RectPlacement(<<1, 2>>, <<1, 2>>, wn, <<1, 2>>, <<0, 1>>),
                       bm, op, "contain") :
            m \in {"rect", "RECT", "polar"}, wn \in {<<1, 2>>, <<-1, 4>>},
            bm \in {"normal", "MULTIPLY"}, op \in {<<1, 1>>, <<-3, 10>>, <<17, 10>>}}

\* pixel arguments of render_one_rect_pixels
PixelArgs ==
    {[center_x_px |-> cx, center_y_px |-> cy, target_width_px |-> tw,
      target_height_px |-> th, rotation_deg |-> rot, maintain_aspect |-> asp,
      opacity |-> ap[2], blend_mode |-> ap[1]] :
        cx \in {0, 1, MaxDim + 1}, cy \in {1, -1}, tw \in {0, 2, MaxDim + 2},
        th \in {MaxDim}, rot \in Rotations, asp \in AspectModes, ap \in Appearances}

\* ------------------------------------------------------------------------
\* State
\* ------------------------------------------------------------------------

VARIABLES
    pc,      \* "start", "configured", "call", "returned" or "raised"
    args,    \* the arguments of the call, args.fn the function called
    ret,     \* the raster returned
    err,     \* the error raised, or "none"
    opened,  \* the image files opened so far
    heap,    \* the Image objects of the calls in progress, by object id
    locals,  \* the local variables of each call in progress: object ids
    batch,   \* the batch driver: its items, loop index, stop flag and outputs
    app      \* the MockupApp window: its fields, widgets and scene items

vars == <<pc, args, ret, err, opened, heap, locals, batch, app>>

NoArgs == [fn |-> "none"]

\* no Image object is tracked
NoHeap == <<>>

NoLocals == <<>>

\* no batch is running
NoBatch == [driver |-> "none"]

\* no window is open
NoApp == [window |-> "none"]

\* the state outside a single engine call
rest == <<heap, locals, batch, app>>

RestIdle == heap = NoHeap /\ locals = NoLocals /\ batch = NoBatch /\ app = NoApp

Init ==
    /\ pc = "start"
    /\ args = NoArgs
    /\ ret = NoRaster
    /\ err = "none"
    /\ opened = <<>>
    /\ RestIdle

\* cfg = RenderConfig.from_dict(data)
FromDict(data) ==
    /\ pc = "start"
    /\ LET r == from_dict(data)
       IN  /\ args' = [fn |-> "from_dict", data |-> data, config |-> r.cfg]
           /\ err' = r.err
           /\ pc' = IF r.err = "none" THEN "configured" ELSE "raised"
    /\ UNCHANGED <<ret, opened, rest>>

\* cfg = RenderConfig(mode=..., placement=..., ...)
Construct(cfg) ==
    /\ pc = "start"
    /\ args' = [fn |-> "RenderConfig", config |-> cfg]
    /\ pc' = "configured"
    /\ UNCHANGED <<ret, err, opened, rest>>

\* render_one(mockup_path, design_path, cfg)
RenderOne(m, d) ==
    /\ pc = "configured"
    /\ LET r == render_one(m, d, args.config)
       IN  /\ args' = [fn |-> "render_one", mockup_path |-> m, design_path |-> d,
                       config |-> args.config, via |-> args.fn]
           /\ ret' = r.out
           /\ err' = r.err
           /\ opened' = r.opened
           /\ pc' = IF r.err = "none" THEN "returned" ELSE "raised"
    /\ UNCHANGED rest

\* render_one_rect_pixels(mockup_path, design_path, ...)
RenderOneRectPixels(m, d, a) ==
    /\ pc = "start"
    /\ LET r == render_one_rect_pixels(m, d, a.center_x_px, a.center_y_px,
                                       a.target_width_px, a.target_height_px,
                                       a.rotation_deg, a.maintain_aspect,
                                       a.opacity, a.blend_mode)
       IN  /\ args' = [fn |-> "render_one_rect_pixels", mockup_path |-> m,
                       design_path |-> d, px |-> a]
           /\ ret' = r.out
           /\ err' = r.err
           /\ opened' = r.opened
           /\ pc' = "returned"
    /\ UNCHANGED rest

Next ==
    \/ pc = "start" /\ \E data \in Dicts : FromDict(data)
    \/ pc = "start" /\ \E cfg \in DirectConfigs : Construct(cfg)
    \/ pc = "configured" /\ \E m \in Mockups, d \in Designs : RenderOne(m, d)
    \/ pc = "start" /\ \E m \in Mockups, d \in Designs, a \in PixelArgs :
                          RenderOneRectPixels(m, d, a)

Spec == Init /\ [][Next]_vars

\* ------------------------------------------------------------------------
\* Specifications of the single pipeline stages: Init draws the arguments,
\* the action applies the stage
\* ------------------------------------------------------------------------

\* largest source width and height given to resize_with_aspect
MaxSrc == 4

\* largest target width and height given to resize_with_aspect
MaxTarget == 6

AlphaSamples == <<0, 1, 2, 127, 128, 200, 254, 255>>

\* an RGBA raster with varied colours and alphas
Sample(w, h, k) ==
    ImageFile("img", "RGBA", <<w, h>>,
              [p \in Pos(w, h) |->
                  <<(37 * p[1] + 11 * k) % 256, (91 * p[2] + 5) % 256, (50 * k) % 256,
                    AlphaSamples[((p[1] + w * p[2] + 3 * k) % 8) + 1]>>])

Samples == {Sample(w, h, k) : w \in 1 .. MaxDim, h \in 1 .. MaxDim, k \in 0 .. 3}

OpacityInputs ==
    {<<-1, 1>>, <<-3, 10>>, <<0, 1>>, <<1, 4>>, <<1, 2>>, <<53, 100>>, <<9, 10>>, <<998, 1000>>,
     <<999, 1000>>, <<1, 1>>, <<17, 10>>, <<2, 1>>}

RotationInputs ==
    {<<0, 1>>, <<5, 10000000>>, <<-5, 10000000>>, <<90, 1>>, <<180, 1>>, <<270, 1>>,
     <<-90, 1>>, <<360, 1>>, <<-360, 1>>, <<720, 1>>}

PixelSamples ==
    {<<c[1], c[2], c[3], a>> :
        c \in {<<0, 0, 0>>, <<255, 255, 255>>, <<200, 200, 200>>, <<1, 128, 254>>,
               <<127, 3, 64>>},
        a \in {0, 1, 127, 128, 254, 255}}

OnePixel(path, pixel) == ImageFile(path, "RGBA", <<1, 1>>, Solid(<<1, 1>>, pixel))

InitStage(a) ==
    /\ pc = "call"
    /\ args = a
    /\ ret = NoRaster
    /\ err = "none"
    /\ opened = <<>>
    /\ RestIdle

InitResize ==
    \E sw \in 1 .. MaxSrc, sh \in 1 .. MaxSrc, tw \in -1 .. MaxTarget, th \in -1 .. MaxTarget,
       mode \in AspectModes :
        InitStage([fn |-> "resize_with_aspect", img |-> ImageFile("img", "RGBA", <<sw, sh>>,
                                    Solid(<<sw, sh>>, <<255, 0, 0, 255>>)),
                   target_w |-> tw, target_h |-> th, mode |-> mode])

ResizeWithAspect ==
    /\ pc = "call" /\ args.fn = "resize_with_aspect"
    /\ ret' = resize_with_aspect(args.img, args.target_w, args.target_h, args.mode)
    /\ pc' = "returned"
    /\ UNCHANGED <<args, err, opened, rest>>

SpecResize == InitResize /\ [][ResizeWithAspect]_vars

InitRotate ==
    \E img \in Samples, rot \in RotationInputs :
        InitStage([fn |-> "rotate_image_rgba", img |-> img, rotation_deg |-> rot])

RotateImageRgba ==
    /\ pc = "call" /\ args.fn = "rotate_image_rgba"
    /\ ret' = rotate_image_rgba(args.img, args.rotation_deg)
    /\ pc' = "returned"
    /\ UNCHANGED <<args, err, opened, rest>>

SpecRotate == InitRotate /\ [][RotateImageRgba]_vars

InitOpacity ==
    \E img \in Samples, op \in OpacityInputs :
        InitStage([fn |-> "apply_opacity", img_rgba |-> img, opacity |-> op])

ApplyOpacity ==
    /\ pc = "call" /\ args.fn = "apply_opacity"
    /\ ret' = apply_opacity(args.img_rgba, args.opacity)
    /\ pc' = "returned"
    /\ UNCHANGED <<args, err, opened, rest>>

SpecOpacity == InitOpacity /\ [][ApplyOpacity]_vars

InitBlend ==
    \E b \in PixelSamples, o \in PixelSamples :
        \/ InitStage([fn |-> "blend_normal", base |-> OnePixel("base", b),
                      overlay |-> OnePixel("overlay", o), mode |-> "normal"])
        \/ \E mode \in NumpyModes \cup {"dissolve"} :
              InitStage([fn |-> "blend_numpy", base |-> OnePixel("base", b),
                         overlay |-> OnePixel("overlay", o), mode |-> mode])

BlendNormal ==
    /\ pc = "call" /\ args.fn = "blend_normal"
    /\ ret' = blend_normal(args.base, args.overlay)
    /\ pc' = "returned"
    /\ UNCHANGED <<args, err, opened, rest>>

BlendNumpy ==
    /\ pc = "call" /\ args.fn = "blend_numpy"
    /\ ret' = blend_numpy(args.base, args.overlay, args.mode)
    /\ pc' = "returned"
    /\ UNCHANGED <<args, err, opened, rest>>

NextBlend == BlendNormal \/ BlendNumpy

SpecBlend == InitBlend /\ [][NextBlend]_vars

\* a left column of one colour and the other columns of another, opaque
TwoTone(size) ==
    [p \in Pos(size[1], size[2]) |->
        IF p[1] = 0 THEN <<255, 0, 0, 255>> ELSE <<0, 0, 255, 255>>]

\* the solid designs and two designs that are not of one colour, one of them
\* of the size of a mockup
WarpDesigns ==
    Designs \cup {ImageFile("design", "RGBA", <<MaxDim - 1, MaxDim>>,
                            TwoTone(<<MaxDim - 1, MaxDim>>)),
                  ImageFile("design", "RGBA", <<2, 2>>, TwoTone(<<2, 2>>))}

WarpConfigs ==
    {RenderConfig("perspective", PerspectivePlacement(q), ap[1], ap[2], "contain") :
        q \in Quads, ap \in Appearances}

InitWarp ==
    \E cfg \in WarpConfigs :
        /\ pc = "configured"
        /\ args = [fn |-> "RenderConfig", config |-> cfg]
        /\ ret = NoRaster
        /\ err = "none"
        /\ opened = <<>>
        /\ RestIdle
    /\ RestIdle

RenderWarp == pc = "configured" /\ \E m \in Mockups, d \in WarpDesigns : RenderOne(m, d)

SpecWarp == InitWarp /\ [][RenderWarp]_vars

\* ------------------------------------------------------------------------
\* Two calls of render_one_rect_pixels whose statements interleave. Every
\* Image object lives in the heap under an id <<call, number>>; a statement
\* reads the objects its local variables name and stores what it returns.
\* ------------------------------------------------------------------------

Threads == {1, 2}

\* pixel arguments of the interleaved calls: one that keeps the resized
\* object through rotation and opacity, two that make new objects
InterleaveArgs ==
    {[center_x_px |-> 1, center_y_px |-> 1, target_width_px |-> 2,
      target_height_px |-> MaxDim, rotation_deg |-> <<0, 1>>, maintain_aspect |-> "contain",
      opacity |-> <<1, 1>>, blend_mode |-> "normal"],
     [center_x_px |-> MaxDim + 1, center_y_px |-> -1, target_width_px |-> MaxDim + 2,
      target_height_px |-> MaxDim, rotation_deg |-> <<90, 1>>, maintain_aspect |-> "cover",
      opacity |-> <<1, 2>>, blend_mode |-> "multiply"],
     [center_x_px |-> 0, center_y_px |-> 1, target_width_px |-> 2,
      target_height_px |-> MaxDim, rotation_deg |-> <<0, 1>>, maintain_aspect |-> "stretch",
      opacity |-> <<1, 2>>, blend_mode |-> "normal"]}

InterleaveCalls ==
    {[fn |-> "render_one_rect_pixels", mockup_path |-> m, design_path |-> d, px |-> a] :
        m \in Mockups, d \in Designs, a \in InterleaveArgs}

\* the id of the next object the call allocates
NewId(t) == <<t, Cardinality({i \in DOMAIN heap : i[1] = t}) + 1>>

\* name = <the object r returned by a statement whose input is object src>:
\* the input object itself when the statement returned it, else a new object
Store(t, name, r, src) ==
    IF src \in DOMAIN heap /\ heap[src].obj = r.obj
    THEN /\ heap' = heap
         /\ locals' = [locals EXCEPT ![t] = @ @@ (name :> src)]
    ELSE /\ heap' = heap @@ (NewId(t) :> r)
         /\ locals' = [locals EXCEPT ![t] = @ @@ (name :> NewId(t))]

\* no object: Image.open and Image.new have no input object
NoObject == <<0, 0>>

\* the call moves from statement from to statement to
Step(t, from, to) ==
    /\ pc[t] = from
    /\ pc' = [pc EXCEPT ![t] = to]

\* the overlay is composited onto the mockup object itself
PasteTarget_Mockup(l) == l.mockup

\* the object canvas.alpha_composite is called on
PasteTarget(l) == l.canvas

InitInterleave ==
    \E c1 \in InterleaveCalls, c2 \in InterleaveCalls :
        /\ pc = [t \in Threads |-> "start"]
        /\ args = [t \in Threads |-> IF t = 1 THEN c1 ELSE c2]
        /\ ret = [t \in Threads |-> NoRaster]
        /\ err = "none"
        /\ opened = [t \in Threads |-> <<>>]
        /\ heap = NoHeap
        /\ locals = [t \in Threads |-> <<>>]
        /\ batch = NoBatch
        /\ app = NoApp

\* mockup = ensure_rgba(Image.open(mockup_path))
OpenMockup(t) ==
    /\ Step(t, "start", "mockup")
    /\ Store(t, "mockup", ensure_rgba(args[t].mockup_path), NoObject)
    /\ opened' = [opened EXCEPT ![t] = Append(@, args[t].mockup_path.obj[1])]
    /\ UNCHANGED <<args, ret, err, batch, app>>

\* design = ensure_rgba(Image.open(design_path))
OpenDesign(t) ==
    /\ Step(t, "mockup", "design")
    /\ Store(t, "design", ensure_rgba(args[t].design_path), NoObject)
    /\ opened' = [opened EXCEPT ![t] = Append(@, args[t].design_path.obj[1])]
    /\ UNCHANGED <<args, ret, err, batch, app>>

\* resized = resize_with_aspect(design, ...)
ResizeStep(t) ==
    /\ Step(t, "design", "resized")
    /\ Store(t, "resized",
             resize_with_aspect(heap[locals[t].design], args[t].px.target_width_px,
                                args[t].px.target_height_px, args[t].px.maintain_aspect),
             locals[t].design)
    /\ UNCHANGED <<args, ret, err, opened, batch, app>>

\* rotated = rotate_image_rgba(resized, rotation_deg)
RotateStep(t) ==
    /\ Step(t, "resized", "rotated")
    /\ Store(t, "rotated", rotate_image_rgba(heap[locals[t].resized], args[t].px.rotation_deg),
             locals[t].resized)
    /\ UNCHANGED <<args, ret, err, opened, batch, app>>

\* overlay = apply_opacity(rotated, opacity)
OpacityStep(t) ==
    /\ Step(t, "rotated", "overlay")
    /\ Store(t, "overlay", apply_opacity(heap[locals[t].rotated], args[t].px.opacity),
             locals[t].rotated)
    /\ UNCHANGED <<args, ret, err, opened, batch, app>>

\* paste_overlay: canvas = Image.new("RGBA", mockup_rgba.size, (0, 0, 0, 0))
NewCanvas(t) ==
    /\ Step(t, "overlay", "canvas")
    /\ Store(t, "canvas", ImageNew(<<"canvas">>, heap[locals[t].mockup].size), NoObject)
    /\ UNCHANGED <<args, ret, err, opened, batch, app>>

\* paste_overlay: canvas.alpha_composite(overlay_rgba, dest=(x0, y0)), in place
CompositeStep(t) ==
    /\ Step(t, "canvas", "composited")
    /\ LET overlay == heap[locals[t].overlay]
           target == PasteTarget(locals[t])
       IN  heap' = [heap EXCEPT ![target] =
                       CanvasComposite(@, overlay,
                                       PasteOrigin(<<args[t].px.center_x_px,
                                                     args[t].px.center_y_px>>,
                                                   overlay.size))]
    /\ UNCHANGED <<args, ret, err, opened, locals, batch, app>>

\* paste_overlay: the blend, returned through render_one_rect_pixels
BlendStep(t) ==
    /\ Step(t, "composited", "returned")
    /\ LET out == PasteBlend(heap[locals[t].mockup], heap[locals[t].canvas],
                             args[t].px.blend_mode)
       IN  /\ Store(t, "out", out, NoObject)
           /\ ret' = [ret EXCEPT ![t] = out]
    /\ UNCHANGED <<args, err, opened, batch, app>>

NextInterleave ==
    \E t \in Threads :
        \/ OpenMockup(t)
        \/ OpenDesign(t)
        \/ ResizeStep(t)
        \/ RotateStep(t)
        \/ OpacityStep(t)
        \/ NewCanvas(t)
        \/ CompositeStep(t)
        \/ BlendStep(t)

SpecInterleave == InitInterleave /\ [][NextInterleave]_vars

\* ------------------------------------------------------------------------
\* The placement arithmetic: render_one's rect resolution, and the centre
\* the CLI and the GUI derive from an anchor
\* ------------------------------------------------------------------------

\* largest background width and height of the rect resolution
MaxBg == 5

\* normalized sizes, exactly representable as floats
SizeNorms ==
    {<<-1, 4>>, <<0, 1>>, <<1, 8>>, <<1, 4>>, <<1, 2>>, <<3, 4>>, <<5, 4>>, <<3, 2>>}

\* normalized centres
CenterNorms == {<<-1, 4>>, <<1, 2>>, <<5, 4>>}

InitResolve ==
    \E wn \in SizeNorms, hn \in SizeNorms, cx \in CenterNorms, cy \in CenterNorms,
       mw \in 1 .. MaxBg, mh \in 1 .. MaxBg :
        InitStage([fn |-> "render_one", rp |-> RectPlacement(cx, cy, wn, hn, <<0, 1>>),
                   mw |-> mw, mh |-> mh])

\* the rect resolution of render_one
ResolveRectStep ==
    /\ pc = "call" /\ args.fn = "render_one"
    /\ ret' = ResolveRect(args.rp, args.mw, args.mh)
    /\ pc' = "returned"
    /\ UNCHANGED <<args, err, opened, rest>>

SpecResolve == InitResolve /\ [][ResolveRectStep]_vars

\* largest origin coordinate given with an anchor
MaxOrigin == 3

\* largest target width and height given with an anchor
MaxSize == 4

\* cli.py _center_from_anchor
center_from_anchor(anchor, x, y, w, h) ==
    IF anchor = "topleft" THEN <<x + FloorDiv(w, 2), y + FloorDiv(h, 2)>> ELSE <<x, y>>

\* the fallback of on_preview and on_export_batch: the centre from the anchor
\* combo and the spin boxes
GuiCenter(anchor, x, y, w, h) ==
    IF anchor = "center" THEN <<x, y>> ELSE <<x + FloorDiv(w, 2), y + FloorDiv(h, 2)>>

InitAnchor ==
    \E anchor \in {"center", "topleft"}, x \in -1 .. MaxOrigin, y \in -1 .. MaxOrigin,
       w \in 1 .. MaxSize, h \in 1 .. MaxSize :
        InitStage([fn |-> "anchor", anchor |-> anchor, x |-> x, y |-> y, w |-> w, h |-> h])

\* cmd_preview_simple / cmd_render_simple: cx, cy = _center_from_anchor(...)
CenterFromAnchor ==
    /\ pc = "call" /\ args.fn = "anchor"
    /\ ret' = center_from_anchor(args.anchor, args.x, args.y, args.w, args.h)
    /\ pc' = "cli"
    /\ UNCHANGED <<args, err, opened, rest>>

\* on_preview / on_export_batch without an overlay item
GuiFallbackCenter ==
    /\ pc = "call" /\ args.fn = "anchor"
    /\ ret' = GuiCenter(args.anchor, args.x, args.y, args.w, args.h)
    /\ pc' = "gui"
    /\ UNCHANGED <<args, err, opened, rest>>

NextAnchor == CenterFromAnchor \/ GuiFallbackCenter

SpecAnchor == InitAnchor /\ [][NextAnchor]_vars

\* ------------------------------------------------------------------------
\* The batch drivers: the two loops of MockupApp.on_export_batch (folder and
\* JSON mode) and the loops of cmd_render and cmd_render_simple. Items are
\* numbered 1 .. n; rendering, saving, uploading and fetching an item can fail.
\* ------------------------------------------------------------------------

\* largest number of designs in a batch
MaxItems == 3

GuiDrivers == {"gui_folder", "gui_json"}

CliDrivers == {"cli_render", "cli_render_simple"}

Drivers == GuiDrivers \cup CliDrivers

\* the item the loop is at
Item(b) == b.i + 1

\* the stop test at the top of the loop body is never taken
StopObserved_Never(b) == FALSE

\* if self.stop_requested: break
StopObserved(b) == b.driver \in GuiDrivers /\ b.stop_requested

\* the application after MockupApp.__init__ (or the CLI before main)
InitBatch ==
    /\ pc = "idle"
    /\ args = NoArgs
    /\ ret = NoRaster
    /\ err = "none"
    /\ opened = <<>>
    /\ heap = NoHeap
    /\ locals = NoLocals
    /\ batch = [driver |-> "none", stop_requested |-> FALSE, mockup_path |-> FALSE]
    /\ app = NoApp

\* the stop flag is left as it was
BatchStart_KeepFlag(driver, n, upload) ==
    /\ pc = "idle"
    /\ driver \in GuiDrivers => batch.mockup_path
    /\ batch' = [driver |-> driver, n |-> n, upload |-> upload, i |-> 0,
                 stop_requested |-> batch.stop_requested, visited |-> {}, started |-> {},
                 saved |-> {}, uploaded |-> {}, excel |-> {}, failed |-> {}, exit |-> "none",
                 pending |-> FALSE, pressed_at |-> 0, completed |-> FALSE,
                 was_stopped |-> batch.stop_requested, rejected |-> "none",
                 raised |-> "none"]
    /\ pc' = "loop"
    /\ UNCHANGED <<args, ret, err, opened, heap, locals, app>>

\* on_export_batch up to the loop (a mockup is needed, the stop flag is
\* reset), or cmd_render / cmd_render_simple up to the loop
BatchStart(driver, n, upload) ==
    /\ pc = "idle"
    /\ driver \in GuiDrivers => batch.mockup_path
    /\ batch' = [driver |-> driver, n |-> n, upload |-> upload, i |-> 0,
                 stop_requested |-> FALSE, visited |-> {}, started |-> {}, saved |-> {},
                 uploaded |-> {}, excel |-> {}, failed |-> {}, exit |-> "none",
                 pending |-> FALSE, pressed_at |-> 0, completed |-> FALSE,
                 was_stopped |-> batch.stop_requested, rejected |-> "none",
                 raised |-> "none"]
    /\ pc' = "loop"
    /\ UNCHANGED <<args, ret, err, opened, heap, locals, app>>

\* what can stop render and render-simple before the loop
Rejections == {"bad_config", "no_designs"}

\* render or render-simple ends before its loop: the config of render cannot
\* be read (an exception, main returns 2), or list_design_files finds nothing
\* and the command calls sys.exit(1), whose SystemExit main does not catch
CliRejected(driver, cause) ==
    /\ pc = "idle"
    /\ driver \in CliDrivers
    /\ cause = "bad_config" => driver = "cli_render"
    /\ batch' = [driver |-> driver, n |-> 0, upload |-> FALSE, i |-> 0,
                 stop_requested |-> batch.stop_requested, visited |-> {}, started |-> {},
                 saved |-> {}, uploaded |-> {}, excel |-> {}, failed |-> {},
                 exit |-> IF cause = "bad_config" THEN 2 ELSE "none",
                 pending |-> FALSE, pressed_at |-> 0, completed |-> FALSE,
                 was_stopped |-> batch.stop_requested, rejected |-> cause,
                 raised |-> IF cause = "no_designs" THEN "SystemExit(1)" ELSE "none"]
    /\ pc' = "done"
    /\ UNCHANGED <<args, ret, err, opened, heap, locals, app>>

\* the loop head and the stop test
LoopTop ==
    /\ pc = "loop"
    /\ IF batch.i = batch.n \/ StopObserved(batch)
       THEN pc' = "finish" /\ batch' = batch
       ELSE /\ pc' = IF batch.driver = "gui_json" THEN "fetch" ELSE "render"
            /\ batch' = [batch EXCEPT !.visited = @ \cup {Item(batch)}]
    /\ UNCHANGED <<args, ret, err, opened, heap, locals, app>>

\* the end of an item that raised nothing: the JSON loop processes events,
\* the other loops go on to the next item
ItemDone(b) ==
    IF b.driver = "gui_json"
    THEN pc' = "events" /\ batch' = b
    ELSE pc' = "loop" /\ batch' = [b EXCEPT !.i = @ + 1]

\* main returns 0 after an exception
ItemFailed_ExitZero(b) ==
    IF b.driver \in GuiDrivers
    THEN ItemDone([b EXCEPT !.failed = @ \cup {Item(b)}])
    ELSE pc' = "done" /\ batch' = [b EXCEPT !.failed = @ \cup {Item(b)}, !.exit = 0]

\* an exception in an item: the GUI loops catch it and go on, the CLI loops
\* let it pass to main, which returns 2
ItemFailed(b) ==
    IF b.driver \in GuiDrivers
    THEN ItemDone([b EXCEPT !.failed = @ \cup {Item(b)}])
    ELSE pc' = "done" /\ batch' = [b EXCEPT !.failed = @ \cup {Item(b)}, !.exit = 2]

\* JSON loop: the item has no url, is no image or its download fails (the
\* item is skipped), or its file is there
Fetch(ok) ==
    /\ pc = "fetch"
    /\ IF ok THEN pc' = "render" /\ batch' = batch
       ELSE pc' = "events" /\ batch' = [batch EXCEPT !.failed = @ \cup {Item(batch)}]
    /\ UNCHANGED <<args, ret, err, opened, heap, locals, app>>

\* the render call of the item
Render(ok) ==
    /\ pc = "render"
    /\ LET b == [batch EXCEPT !.started = @ \cup {Item(batch)}]
       IN  IF ok THEN pc' = "save" /\ batch' = b ELSE ItemFailed(b)
    /\ UNCHANGED <<args, ret, err, opened, heap, locals, app>>

\* the output file of the item is written
Save(ok) ==
    /\ pc = "save"
    /\ IF ok
       THEN LET b == [batch EXCEPT !.saved = @ \cup {Item(batch)}]
            IN  IF b.upload THEN pc' = "upload" /\ batch' = b
                ELSE IF b.driver \in GuiDrivers THEN pc' = "excel" /\ batch' = b
                ELSE ItemDone(b)
       ELSE ItemFailed(batch)
    /\ UNCHANGED <<args, ret, err, opened, heap, locals, app>>

\* upload_to_imgbb of the output file
Upload(ok) ==
    /\ pc = "upload"
    /\ IF ok
       THEN LET b == [batch EXCEPT !.uploaded = @ \cup {Item(batch)}]
            IN  IF b.driver \in GuiDrivers THEN pc' = "excel" /\ batch' = b
                ELSE ItemDone(b)
       ELSE ItemFailed(batch)
    /\ UNCHANGED <<args, ret, err, opened, heap, locals, app>>

\* self._excel_write_5(...): the Excel block of the item
ExcelBlock ==
    /\ pc = "excel"
    /\ ItemDone([batch EXCEPT !.excel = @ \cup {Item(batch)}])
    /\ UNCHANGED <<args, ret, err, opened, heap, locals, app>>

\* the user presses Stop while on_export_batch works on an item: the click
\* waits in the event queue
StopPressed ==
    /\ pc \in {"fetch", "render", "save", "upload", "excel"}
    /\ batch.driver \in GuiDrivers
    /\ ~ batch.pending
    /\ batch' = [batch EXCEPT !.pending = TRUE, !.pressed_at = Item(batch)]
    /\ UNCHANGED <<pc, args, ret, err, opened, heap, locals, app>>

\* on_stop_clicked, run by the event loop: at once when no handler runs, by
\* QApplication.processEvents() in a batch, or when on_export_batch has
\* returned
StopClicked ==
    /\ \/ pc = "idle"
       \/ pc \in {"events", "done"} /\ batch.driver \in GuiDrivers /\ batch.pending
    /\ batch' = IF pc = "idle" THEN [batch EXCEPT !.stop_requested = TRUE]
                ELSE [batch EXCEPT !.stop_requested = TRUE, !.pending = FALSE]
    /\ UNCHANGED <<pc, args, ret, err, opened, heap, locals, app>>

\* reset_all, as far as the batch sees it: the stop flag is set and the
\* mockup is forgotten
ResetAll ==
    /\ pc = "idle"
    /\ batch' = [batch EXCEPT !.stop_requested = TRUE, !.mockup_path = FALSE]
    /\ UNCHANGED <<pc, args, ret, err, opened, heap, locals, app>>

\* pick_mockup: a mockup is chosen
LoadMockup ==
    /\ pc = "idle"
    /\ batch' = [batch EXCEPT !.mockup_path = TRUE]
    /\ UNCHANGED <<pc, args, ret, err, opened, heap, locals, app>>

\* QApplication.processEvents() returns, every waiting event handled; the
\* loop goes on to the next item
EventsDone ==
    /\ pc = "events"
    /\ ~ batch.pending
    /\ batch' = [batch EXCEPT !.i = @ + 1]
    /\ pc' = "loop"
    /\ UNCHANGED <<args, ret, err, opened, heap, locals, app>>

\* after the loop: the GUI saves the Excel file, shows the batch as completed
\* (the JSON loop only without a stop request) and returns; main returns 0
Finish ==
    /\ pc = "finish"
    /\ batch' = [batch EXCEPT !.exit = IF batch.driver \in CliDrivers THEN 0 ELSE "none",
                              !.completed = \/ batch.driver = "gui_folder"
                                            \/ batch.driver = "gui_json" /\ ~ batch.stop_requested]
    /\ pc' = "done"
    /\ UNCHANGED <<args, ret, err, opened, heap, locals, app>>

NextBatch ==
    \/ \E driver \in Drivers, n \in 1 .. MaxItems, upload \in BOOLEAN :
          BatchStart(driver, n, upload)
    \/ \E driver \in CliDrivers, cause \in Rejections : CliRejected(driver, cause)
    \/ LoopTop
    \/ \E ok \in BOOLEAN : Fetch(ok)
    \/ \E ok \in BOOLEAN : Render(ok)
    \/ \E ok \in BOOLEAN : Save(ok)
    \/ \E ok \in BOOLEAN : Upload(ok)
    \/ ExcelBlock
    \/ LoadMockup
    \/ ResetAll
    \/ StopPressed
    \/ StopClicked
    \/ EventsDone
    \/ Finish

SpecBatch == InitBatch /\ [][NextBatch]_vars

\* ------------------------------------------------------------------------
\* The Excel session of a GUI batch: _excel_open, one _excel_write_5 per
\* exported item, _excel_save_current at the end.  A block is the rows of one
\* item; blocks are numbered in the order they are written.  A workbook is
\* the set of blocks it holds, a saved file the workbook it was saved from.
\* ------------------------------------------------------------------------

\* largest number of blocks written in a batch
MaxBlocks == 400

\* largest file index a batch rotates to
MaxFiles == 3

\* self._excel_max_data_rows
ExcelMaxDataRows == 1950

\* first data row of the template
ExcelFirstRow == 5

\* numbers of prototype rows found in the template (none, many, the most the
\* safety guard lets through)
ProtoRows == {0, 150, 201}

\* how _excel_open ends
OpenOutcomes == {"unchecked", "no_openpyxl", "missing_columns", "ok"}

\* M = len(self._excel_proto_rows) or 5, with the list _excel_open leaves
BlockRows(proto) == IF proto = 0 THEN 5 ELSE proto

\* the name _excel_save_current saves file k to
ExcelFileName(k) == IF k = 1 THEN <<"TEMU_results", ".xlsx">> ELSE <<"TEMU_results", k, ".xlsx">>

\* wb.save(out_path), which can fail
ExcelSaved(x, ok) ==
    IF x.enabled /\ x.has_wb
    THEN [x EXCEPT !.files = IF ok THEN [n \in DOMAIN @ \cup {ExcelFileName(x.file_idx)} |->
                                           IF n = ExcelFileName(x.file_idx) THEN x.wb
                                           ELSE @[n]]
                                  ELSE @,
                   !.saves = Append(@, ExcelFileName(x.file_idx))]
    ELSE x

\* _excel_rotate: save, then load the template again
ExcelRotated(x, save_ok, load_ok) ==
    LET y == ExcelSaved(x, save_ok)
    IN  IF load_ok
        THEN [y EXCEPT !.wb = {}, !.row_idx = ExcelFirstRow, !.file_idx = @ + 1]
        ELSE [y EXCEPT !.enabled = FALSE]

\* the next block does not fit the current workbook
MustRotate(x) == Max(0, x.row_idx - 5) + x.M > x.max_data_rows

InitExcel ==
    /\ pc = "idle"
    /\ args = NoArgs
    /\ ret = NoRaster
    /\ err = "none"
    /\ opened = <<>>
    /\ heap = NoHeap
    /\ locals = NoLocals
    /\ batch = NoBatch
    /\ app = NoApp

\* _excel_open at the start of a batch
ExcelOpen(outcome, proto) ==
    /\ pc = "idle"
    /\ batch' = [driver |-> "excel", enabled |-> outcome = "ok",
                 has_wb |-> outcome \in {"missing_columns", "ok"},
                 M |-> BlockRows(IF outcome = "ok" THEN proto ELSE 0),
                 row_idx |-> ExcelFirstRow, file_idx |-> 1,
                 max_data_rows |-> ExcelMaxDataRows,
                 wb |-> {}, files |-> <<>>, saves |-> <<>>, blocks |-> 0, calls |-> 0]
    /\ pc' = "open"
    /\ UNCHANGED <<args, ret, err, opened, heap, locals, app>>

\* _excel_write_5 for the next item, with the rotation it may start
ExcelWrite5(save_ok, load_ok) ==
    /\ pc = "open"
    /\ batch.calls < MaxBlocks
    /\ MustRotate(batch) => batch.file_idx < MaxFiles
    /\ IF ~ batch.enabled \/ ~ batch.has_wb
       THEN batch' = [batch EXCEPT !.calls = @ + 1]
       ELSE LET x == IF MustRotate(batch) THEN ExcelRotated(batch, save_ok, load_ok)
                     ELSE batch
            IN  batch' = [x EXCEPT !.wb = @ \cup {batch.blocks + 1},
                                   !.row_idx = @ + x.M,
                                   !.blocks = @ + 1,
                                   !.calls = @ + 1]
    /\ (~ batch.enabled \/ ~ batch.has_wb \/ ~ MustRotate(batch)) => (save_ok /\ load_ok)
    /\ UNCHANGED <<pc, args, ret, err, opened, heap, locals, app>>

\* _excel_save_current after the loop
ExcelSaveCurrent(save_ok) ==
    /\ pc = "open"
    /\ batch' = ExcelSaved(batch, save_ok)
    /\ (~ batch.enabled \/ ~ batch.has_wb) => save_ok
    /\ pc' = "done"
    /\ UNCHANGED <<args, ret, err, opened, heap, locals, app>>

NextExcel ==
    \/ \E outcome \in OpenOutcomes, proto \in ProtoRows : ExcelOpen(outcome, proto)
    \/ \E save_ok \in BOOLEAN, load_ok \in BOOLEAN : ExcelWrite5(save_ok, load_ok)
    \/ \E save_ok \in BOOLEAN : ExcelSaveCurrent(save_ok)

SpecExcel == InitExcel /\ [][NextExcel]_vars

\* ------------------------------------------------------------------------
\* The MockupApp window: source mode, layers, locks, transform controls and
\* the scene items.  Items are numbered in the order they are created; 0 is
\* None.  Scene positions are kept doubled, so that the centre of an item of
\* odd size is an integer; rotations are 0, 90 and -90 degrees.
\* ------------------------------------------------------------------------

\* largest number of user events (clicks, keys, drags, wheel turns, edits)
\* handled by the window
MaxEvents == 5

\* the widgets update_source_mode enables for folder mode
FolderWidgets == {"designs_dir_edit", "designs_dir_btn"}

\* the widgets update_source_mode enables for JSON mode
JsonWidgets == {"pick_json_btn", "json_path_edit", "temp_dir_btn", "temp_dir_edit"}

\* the widgets of _set_transform_controls_enabled
TransformWidgets ==
    {"x_spin", "y_spin", "w_spin", "h_spin", "rot_spin", "opacity_spin", "anchor_combo",
     "aspect_combo", "blend_combo"}

\* the size of the mockup picked
MockupSize == <<40, 30>>

\* the size of the design picked
DesignSize == <<10, 10>>

\* the size of the watermark picked
WatermarkSize == <<4, 4>>

\* QSpinBox.setRange: a value set is clamped to the range of the widget
SpinValue(name, v) ==
    CASE name \in {"x_spin", "y_spin"} -> Max(0, Min(100000, v))
      [] name \in {"w_spin", "h_spin"} -> Max(1, Min(100000, v))
      [] name = "rot_spin" -> Max(-360, Min(360, v))
      [] OTHER -> v

\* BlendPixmapItem(pixmap, blend_mode): movable and selectable, at the origin
BlendPixmapItem(size, blend_mode) ==
    [scene |-> FALSE, movable |-> TRUE, selectable |-> TRUE, pos2 |-> <<0, 0>>,
     base |-> size, w |-> size[1], h |-> size[2], rot |-> 0, opacity |-> <<1, 1>>,
     blend_mode |-> blend_mode]

\* twice the vector from the item's position to its visual centre: the
\* transform rotates the local centre and then scales it
CenterOffset2(it) ==
    LET sw == (it.base[2] * it.w) \div it.base[1]
        sh == (it.base[1] * it.h) \div it.base[2]
        turn == (it.rot % 360) \div 90
    IN  CASE turn = 0 -> <<it.w, it.h>>
          [] turn = 1 -> <<-sw, sh>>
          [] turn = 3 -> <<sw, -sh>>

\* item.mapToScene(item.boundingRect().center()), doubled
Center2(it) == <<it.pos2[1] + CenterOffset2(it)[1], it.pos2[2] + CenterOffset2(it)[2]>>

\* degrees(arctan2(m21, m11)) of a transform scaled and then rotated by rot
ShownRotation(rot) ==
    LET turn == (rot % 360) \div 90
    IN  CASE turn = 0 -> 0 [] turn = 1 -> -90 [] turn = 3 -> 90

\* the active layer is locked, as every handler tests it
ActiveLocked(a) ==
    \/ a.active_item = a.overlay_item /\ a.design_locked
    \/ a.active_item = a.wm_item /\ a.watermark_locked

\* _update_transform_controls_enabled
update_transform_controls_enabled(a) ==
    [a EXCEPT !.enabled = [n \in DOMAIN @ |->
                              IF n \in TransformWidgets THEN ~ ActiveLocked(a) ELSE @[n]]]

\* JSON mode leaves the folder inputs enabled
SourceInputs_BothEnabled(a, json) ==
    [a EXCEPT !.enabled = [n \in DOMAIN @ |->
                              IF n \in JsonWidgets THEN json
                              ELSE IF n \in FolderWidgets THEN TRUE
                              ELSE @[n]]]

\* the setEnabled calls of update_source_mode for JSON mode or folder mode
SourceInputs(a, json) ==
    [a EXCEPT !.enabled = [n \in DOMAIN @ |->
                              IF n \in JsonWidgets THEN json
                              ELSE IF n \in FolderWidgets THEN ~ json
                              ELSE @[n]]]

\* update_source_mode: JSON wins; with neither box checked folder mode is
\* checked and the function runs again
update_source_mode(a) ==
    IF a.source_json_chk
    THEN SourceInputs([a EXCEPT !.source_folder_chk = FALSE], TRUE)
    ELSE IF a.source_folder_chk
    THEN SourceInputs([a EXCEPT !.source_json_chk = FALSE], FALSE)
    ELSE SourceInputs([a EXCEPT !.source_folder_chk = TRUE, !.source_json_chk = FALSE], FALSE)

\* update_spins_from_active_item: the spins take the values of the active
\* item, with their signals blocked
update_spins_from_active_item(a) ==
    IF a.active_item = 0 THEN a
    ELSE LET it == a.items[a.active_item]
             at2 == IF a.anchor_combo = "center" THEN Center2(it) ELSE it.pos2
         IN  [a EXCEPT !.x_spin = SpinValue("x_spin", round(at2[1], 2)),
                       !.y_spin = SpinValue("y_spin", round(at2[2], 2)),
                       !.w_spin = SpinValue("w_spin", it.w),
                       !.h_spin = SpinValue("h_spin", it.h),
                       !.rot_spin = ShownRotation(it.rot),
                       !.opacity_spin = it.opacity]

\* update_active_item_from_spins: the active item takes the size, rotation,
\* opacity and blend mode of the controls and is aligned to (x, y) by its
\* centre or, with anchor topleft, by its origin
update_active_item_from_spins(a) ==
    IF a.active_item = 0 THEN a
    ELSE LET it == [a.items[a.active_item] EXCEPT !.w = a.w_spin, !.h = a.h_spin,
                                                  !.rot = a.rot_spin,
                                                  !.opacity = a.opacity_spin,
                                                  !.blend_mode = a.blend_combo]
             pos2 == IF a.anchor_combo = "center"
                     THEN <<2 * a.x_spin - CenterOffset2(it)[1],
                            2 * a.y_spin - CenterOffset2(it)[2]>>
                     ELSE <<2 * a.x_spin, 2 * a.y_spin>>
         IN  [a EXCEPT !.items[a.active_item] = [it EXCEPT !.pos2 = pos2]]

\* widget.setValue(v) / setCurrentText(v): a changed value is signalled to
\* update_active_item_from_spins
SetWidget(a, name, v) ==
    IF a[name] = SpinValue(name, v) THEN a
    ELSE update_active_item_from_spins([a EXCEPT ![name] = SpinValue(name, v)])

\* center_overlay: the active item is moved to the centre of the mockup
center_overlay(a) ==
    IF a.active_item = 0 THEN a
    ELSE LET it == a.items[a.active_item]
             pos2 == <<it.pos2[1] + MockupSize[1] - Center2(it)[1],
                       it.pos2[2] + MockupSize[2] - Center2(it)[2]>>
         IN  update_spins_from_active_item([a EXCEPT !.items[a.active_item].pos2 = pos2])

\* the size reset_overlay goes back to
OriginalSize(a) ==
    IF a.active_item = a.overlay_item /\ a.overlay_original_size # <<>>
    THEN a.overlay_original_size
    ELSE IF a.active_item = a.wm_item /\ a.wm_original_size # <<>>
    THEN a.wm_original_size
    ELSE a.items[a.active_item].base

\* reset_overlay
reset_overlay(a) ==
    IF a.active_item = 0 THEN a
    ELSE LET a1 == SetWidget(a, "w_spin", OriginalSize(a)[1])
             a2 == SetWidget(a1, "h_spin", OriginalSize(a)[2])
             a3 == SetWidget(a2, "rot_spin", 0)
             a4 == SetWidget(a3, "opacity_spin", <<1, 1>>)
             a5 == SetWidget(a4, "anchor_combo", "center")
             a6 == SetWidget(a5, "aspect_combo", "contain")
             a7 == SetWidget(a6, "blend_combo", "normal")
         IN  center_overlay(a7)

\* set_active_layer
set_active_layer(a, layer) ==
    LET b == CASE layer = "design" ->
                    [a EXCEPT !.active_item = a.overlay_item, !.active_label = "Active: DESIGN"]
               [] layer = "watermark" /\ a.wm_item # 0 ->
                    [a EXCEPT !.active_item = a.wm_item, !.active_label = "Active: WATERMARK"]
               [] layer = "watermark" /\ a.wm_item = 0 ->
                    [a EXCEPT !.active_item = a.overlay_item,
                              !.active_label = "Active: DESIGN (no watermark)"]
               [] OTHER -> a
    IN  update_transform_controls_enabled(b)

\* item.setFlag(ItemIsMovable, on); item.setFlag(ItemIsSelectable, on)
SetFlags(a, id, on) ==
    IF id = 0 THEN a
    ELSE [a EXCEPT !.items[id].movable = on, !.items[id].selectable = on]

\* toggle_design_lock
toggle_design_lock(a, locked) ==
    update_transform_controls_enabled(
        SetFlags([a EXCEPT !.design_locked = locked], a.overlay_item, ~ locked))

\* toggle_watermark_lock
toggle_watermark_lock(a, locked) ==
    update_transform_controls_enabled(
        SetFlags([a EXCEPT !.watermark_locked = locked], a.wm_item, ~ locked))

\* checkbox.setChecked(on): toggled is emitted when the state changes
SetLockChecked(a, layer, on) ==
    IF layer = "design"
    THEN IF a.lock_design_chk = on THEN a
         ELSE toggle_design_lock([a EXCEPT !.lock_design_chk = on], on)
    ELSE IF a.lock_watermark_chk = on THEN a
         ELSE toggle_watermark_lock([a EXCEPT !.lock_watermark_chk = on], on)

\* scene.removeItem(item)
RemoveItem(a, id) == IF id = 0 THEN a ELSE [a EXCEPT !.items[id].scene = FALSE]

\* load_design with a readable image: the old overlay leaves the scene, the
\* active item is centred, the new overlay is added and made active
load_design(a) ==
    LET id == Len(a.items) + 1
        a1 == RemoveItem(a, a.overlay_item)
        a2 == [a1 EXCEPT !.items = Append(@, BlendPixmapItem(DesignSize, a.blend_combo)),
                         !.overlay_item = id,
                         !.overlay_original_size = DesignSize]
        a3 == center_overlay(a2)
        a4 == [a3 EXCEPT !.items[id].scene = TRUE, !.active_item = id]
    IN  update_spins_from_active_item(a4)

\* load_watermark with a readable image: the old watermark leaves the scene,
\* the new one is put in the top right corner of the mockup
load_watermark(a) ==
    LET id == Len(a.items) + 1
        a1 == RemoveItem(a, a.wm_item)
        placed == IF a.mockup_size # <<>>
                  THEN [BlendPixmapItem(WatermarkSize, a.blend_combo) EXCEPT
                            !.pos2 = <<2 * (a.mockup_size[1] - WatermarkSize[1] - 20), 2 * 20>>,
                            !.scene = TRUE]
                  ELSE [BlendPixmapItem(WatermarkSize, a.blend_combo) EXCEPT !.scene = TRUE]
    IN  [a1 EXCEPT !.items = Append(@, placed),
                   !.wm_item = id,
                   !.wm_original_size = WatermarkSize]

\* reset_all, as far as the window shows it
reset_all(a) ==
    LET a1 == [a EXCEPT !.items = [i \in DOMAIN @ |-> [@[i] EXCEPT !.scene = FALSE]],
                        !.bg_item = FALSE, !.overlay_item = 0, !.wm_item = 0,
                        !.active_item = 0, !.overlay_original_size = <<>>,
                        !.wm_original_size = <<>>, !.mockup_size = <<>>]
        a2 == SetWidget(a1, "anchor_combo", "center")
        a3 == SetWidget(a2, "aspect_combo", "contain")
        a4 == SetWidget(a3, "blend_combo", "normal")
        a5 == SetWidget(a4, "x_spin", 0)
        a6 == SetWidget(a5, "y_spin", 0)
        a7 == SetWidget(a6, "w_spin", 800)
        a8 == SetWidget(a7, "h_spin", 600)
        a9 == SetWidget(a8, "rot_spin", 0)
        a10 == SetWidget(a9, "opacity_spin", <<1, 1>>)
        a11 == SetLockChecked(a10, "design", FALSE)
        a12 == SetLockChecked(a11, "watermark", FALSE)
        a13 == update_source_mode([a12 EXCEPT !.source_folder_chk = TRUE,
                                              !.source_json_chk = FALSE])
    IN  set_active_layer(a13, "design")

\* the window after _setup_ui, _setup_connections and _setup_interactions
NewApp ==
    [window |-> "MockupApp",
     source_folder_chk |-> TRUE, source_json_chk |-> FALSE,
     enabled |-> [n \in FolderWidgets \cup JsonWidgets \cup TransformWidgets |->
                     n \notin JsonWidgets],
     lock_design_chk |-> FALSE, lock_watermark_chk |-> FALSE,
     design_locked |-> FALSE, watermark_locked |-> FALSE,
     bg_item |-> FALSE, mockup_size |-> <<>>,
     overlay_item |-> 0, wm_item |-> 0, active_item |-> 0, items |-> <<>>,
     overlay_original_size |-> <<>>, wm_original_size |-> <<>>,
     x_spin |-> 1000, y_spin |-> 800, w_spin |-> 800, h_spin |-> 600, rot_spin |-> 0,
     opacity_spin |-> <<1, 1>>, anchor_combo |-> "center", aspect_combo |-> "contain",
     blend_combo |-> "normal", active_label |-> "Active: DESIGN", events |-> 0]

InitApp ==
    /\ pc = "init"
    /\ args = NoArgs
    /\ ret = NoRaster
    /\ err = "none"
    /\ opened = <<>>
    /\ heap = NoHeap
    /\ locals = NoLocals
    /\ batch = NoBatch
    /\ app = NewApp

\* a handler of the window has run on a user event
Handled(a) ==
    /\ pc = "ready"
    /\ app.events < MaxEvents
    /\ app' = [a EXCEPT !.events = @ + 1]
    /\ UNCHANGED <<pc, args, ret, err, opened, heap, locals, batch>>

\* the end of __init__: _load_settings with the persisted source mode and
\* locks
LoadSettings(json_mode, lock_design, lock_watermark) ==
    /\ pc = "init"
    /\ LET a1 == update_source_mode([app EXCEPT !.source_json_chk = json_mode,
                                                !.source_folder_chk = ~ json_mode])
           a2 == SetLockChecked(a1, "design", lock_design)
       IN  app' = SetLockChecked(a2, "watermark", lock_watermark)
    /\ pc' = "ready"
    /\ UNCHANGED <<args, ret, err, opened, heap, locals, batch>>

\* a click on the Folder box (Qt toggles it, then select_folder_mode runs)
SelectFolderMode ==
    /\ pc = "ready"
    /\ Handled(update_source_mode([app EXCEPT !.source_folder_chk = TRUE,
                                              !.source_json_chk = FALSE]))

\* a click on the JSON box (Qt toggles it, then select_json_mode runs)
SelectJsonMode ==
    /\ pc = "ready"
    /\ Handled(update_source_mode([app EXCEPT !.source_json_chk = TRUE,
                                              !.source_folder_chk = FALSE]))

\* a click on a lock box
ToggleLock(layer) ==
    /\ pc = "ready"
    /\ Handled(SetLockChecked(app, layer, IF layer = "design" THEN ~ app.lock_design_chk
                                          ELSE ~ app.lock_watermark_chk))

\* the focus buttons and the keys D and W
FocusLayer(layer) ==
    /\ pc = "ready"
    /\ Handled(set_active_layer(app, layer))

\* the item of a layer, 0 if it has none
LayerItem(a, layer) == IF layer = "design" THEN a.overlay_item ELSE a.wm_item

\* handle_mouse_press on the item of a layer
MousePress(layer) ==
    /\ pc = "ready"
    /\ LayerItem(app, layer) # 0
    /\ Handled(set_active_layer(app, layer))

\* the item of a layer is dragged by the mouse: the press makes the layer
\* active, Qt moves the item if it is movable
Drag(layer) ==
    /\ pc = "ready"
    /\ LayerItem(app, layer) # 0
    /\ app.items[LayerItem(app, layer)].movable
    /\ Handled([set_active_layer(app, layer) EXCEPT
                  !.items[LayerItem(app, layer)].pos2 = <<@[1] + 2, @[2] + 4>>])

\* pick_mockup and load_mockup
PickMockup ==
    /\ pc = "ready"
    /\ Handled([app EXCEPT !.bg_item = TRUE, !.mockup_size = MockupSize])

\* pick_design and load_design, on a mockup
PickDesign ==
    /\ pc = "ready"
    /\ app.bg_item
    /\ Handled(load_design(app))

\* pick_watermark and load_watermark, on a mockup
PickWatermark ==
    /\ pc = "ready"
    /\ app.bg_item
    /\ Handled(load_watermark(app))

\* the values the user gives to the transform controls
WidgetEdits ==
    {<<"x_spin", 25>>, <<"w_spin", 20>>, <<"rot_spin", 90>>, <<"opacity_spin", <<1, 2>>>>,
     <<"blend_combo", "multiply">>, <<"anchor_combo", "topleft">>}

\* the user changes an enabled transform control
EditWidget(name, v) ==
    /\ pc = "ready"
    /\ app.enabled[name]
    /\ Handled(SetWidget(app, name, v))

\* handle_wheel_event: Shift turns by 5 degrees a notch, otherwise the size
\* grows or shrinks by a tenth around the centre
handle_wheel_event(a, shift, up) ==
    IF shift
    THEN SetWidget(a, "rot_spin", a.rot_spin + (IF up THEN 90 ELSE -90))
    ELSE LET c2 == Center2(a.items[a.active_item])
             a1 == SetWidget(a, "x_spin", round(c2[1], 2))
             a2 == SetWidget(a1, "y_spin", round(c2[2], 2))
             cw == Max(1, a2.w_spin)
             ch == Max(1, a2.h_spin)
             a3 == SetWidget(a2, "w_spin", Max(1, (cw * (IF up THEN 11 ELSE 9)) \div 10))
         IN  SetWidget(a3, "h_spin", Max(1, (ch * (IF up THEN 11 ELSE 9)) \div 10))

\* eventFilter on a wheel event of the viewport
Wheel(shift, up) ==
    /\ pc = "ready"
    /\ shift => (app.rot_spin + (IF up THEN 90 ELSE -90)) \in {-90, 0, 90}
    /\ Handled(IF app.active_item = 0 \/ ActiveLocked(app) THEN app
              ELSE handle_wheel_event(app, shift, up))

\* eventFilter and handle_double_click on a double click in the viewport
DoubleClick ==
    /\ pc = "ready"
    /\ Handled(IF app.active_item = 0 \/ ActiveLocked(app) THEN app ELSE center_overlay(app))

\* the key C and the center button
KeyC ==
    /\ pc = "ready"
    /\ Handled(center_overlay(app))

\* the key R and the reset button
KeyR ==
    /\ pc = "ready"
    /\ Handled(reset_overlay(app))

\* the Reset All button
ResetAllClicked ==
    /\ pc = "ready"
    /\ Handled(reset_all(app))

NextApp ==
    \/ \E json_mode \in BOOLEAN, lock_design \in BOOLEAN, lock_watermark \in BOOLEAN :
          LoadSettings(json_mode, lock_design, lock_watermark)
    \/ SelectFolderMode
    \/ SelectJsonMode
    \/ \E layer \in {"design", "watermark"} : ToggleLock(layer)
    \/ \E layer \in {"design", "watermark"} : MousePress(layer)
    \/ \E layer \in {"design", "watermark"} : FocusLayer(layer)
    \/ \E layer \in {"design", "watermark"} : Drag(layer)
    \/ PickMockup
    \/ PickDesign
    \/ PickWatermark
    \/ \E e \in WidgetEdits : EditWidget(e[1], e[2])
    \/ \E shift \in BOOLEAN, up \in BOOLEAN : Wheel(shift, up)
    \/ DoubleClick
    \/ KeyC
    \/ KeyR
    \/ ResetAllClicked

SpecApp == InitApp /\ [][NextApp]_vars

\* ------------------------------------------------------------------------
\* Properties
\* ------------------------------------------------------------------------

\* a render call has returned a raster
Rendered == pc = "returned" /\ args.fn \in {"render_one", "render_one_rect_pixels"}

\* the call placed the design by a rectangle
RenderedRect ==
    /\ Rendered
    /\ args.fn = "render_one" => args.config.mode = "rect"

\* the background of the call, as decoded
Background == ensure_rgba(args.mockup_path)

CallOpacity == IF args.fn = "render_one" THEN args.config.opacity ELSE args.px.opacity

CallBlend == IF args.fn = "render_one" THEN args.config.blend_mode ELSE args.px.blend_mode

CallAspect ==
    IF args.fn = "render_one" THEN args.config.maintain_aspect ELSE args.px.maintain_aspect

CallRotation ==
    IF args.fn = "render_one" THEN args.config.placement.rotation_deg
    ELSE args.px.rotation_deg

\* the centre and target size of the call in pixels
CallRect ==
    IF args.fn = "render_one"
    THEN LET rp == args.config.placement
             bw == Background.size[1]
             bh == Background.size[2]
         IN  [cx |-> round(rp.center_x_norm[1] * bw, rp.center_x_norm[2]),
              cy |-> round(rp.center_y_norm[1] * bh, rp.center_y_norm[2]),
              tw |-> Max(1, round(rp.width_norm[1] * bw, rp.width_norm[2])),
              th |-> Max(1, round(rp.height_norm[1] * bh, rp.height_norm[2]))]
    ELSE [cx |-> args.px.center_x_px, cy |-> args.px.center_y_px,
          tw |-> args.px.target_width_px, th |-> args.px.target_height_px]

\* C1: in rect mode render_one returns the raster that render_one_rect_pixels
\* returns for the centre (round(center_x_norm*bg_w), round(center_y_norm*bg_h)),
\* the target size (max(1, round(width_norm*bg_w)), max(1, round(height_norm*bg_h)))
\* and the same rotation, aspect policy, opacity and blend mode.
C1_RectPixelParity ==
    (pc = "returned" /\ args.fn = "render_one" /\ args.config.mode = "rect") =>
        ret = render_one_rect_pixels(args.mockup_path, args.design_path,
                                     CallRect.cx, CallRect.cy, CallRect.tw, CallRect.th,
                                     args.config.placement.rotation_deg,
                                     args.config.maintain_aspect, args.config.opacity,
                                     args.config.blend_mode).out

\* render_one has returned for a rotated, half-transparent design that changed
\* the background, placed where rounding and truncation differ
C1_Witness ==
    /\ pc = "returned" /\ args.fn = "render_one" /\ args.config.mode = "rect"
    /\ args.config.placement.rotation_deg = <<90, 1>>
    /\ args.config.placement.center_x_norm = <<5, 4>>
    /\ args.config.opacity = <<1, 2>>
    /\ ret.px # Background.px

\* C2: with opacity 0 the returned raster is the background, pixel for pixel
\* and in all four channels, for every blend mode and placement, in rect and
\* in perspective mode.
C2_ZeroOpacityIsBackground ==
    (Rendered /\ CallOpacity = <<0, 1>>) =>
        /\ ret.size = Background.size
        /\ ret.px = Background.px

\* a perspective render with opacity 0 in a numpy blend mode has returned, for
\* a quad that covers the whole background
C2_Witness ==
    /\ Rendered /\ args.fn = "render_one" /\ args.config.mode = "perspective"
    /\ args.config.opacity = <<0, 1>>
    /\ args.config.blend_mode = "screen"
    /\ args.config.placement.quad_norm = FullQuad
    /\ ret.px = Background.px

\* the resized overlay of the call and where its top-left corner is pasted
PastedOverlay ==
    resize_with_aspect(ensure_rgba(args.design_path), CallRect.tw, CallRect.th, CallAspect)

PastedAt ==
    <<round(2 * CallRect.cx - PastedOverlay.size[1], 2),
      round(2 * CallRect.cy - PastedOverlay.size[2], 2)>>

InPasted(p) ==
    /\ p[1] - PastedAt[1] \in 0 .. (PastedOverlay.size[1] - 1)
    /\ p[2] - PastedAt[2] \in 0 .. (PastedOverlay.size[2] - 1)

OpaquePaste ==
    /\ RenderedRect
    /\ CallBlend = "normal" /\ CallOpacity = <<1, 1>> /\ CallRotation = <<0, 1>>
    /\ \A q \in DOMAIN PastedOverlay.px : PastedOverlay.px[q][4] = 255

\* the scenario of the 1000x800 background and the 100x100 overlay placed at
\* (0.5, 0.5) with width_norm = height_norm = 0.1 and contain: (500, 400) lies
\* in the pasted rectangle and (0, 0) does not
C3_Scenario ==
    LET r == ResolveRect(RectPlacement(<<1, 2>>, <<1, 2>>, <<1, 10>>, <<1, 10>>, <<0, 1>>),
                         1000, 800)
        sc == AspectScale(100, 100, r.tw, r.th, "contain")
        ow == Max(1, round(100 * sc[1], sc[2]))
        oh == Max(1, round(100 * sc[1], sc[2]))
        o == PasteOrigin(<<r.cx, r.cy>>, <<ow, oh>>)
    IN  /\ 500 \in o[1] .. (o[1] + ow - 1) /\ 400 \in o[2] .. (o[2] + oh - 1)
        /\ ~(0 \in o[1] .. (o[1] + ow - 1) /\ 0 \in o[2] .. (o[2] + oh - 1))

\* C3: with blend normal, opacity 1, rotation 0 and an opaque overlay, every
\* output pixel inside the rectangle with top-left (round(cx - ow/2),
\* round(cy - oh/2)) and size ow x oh is the resized overlay's pixel and every
\* other output pixel is the background's; the 1000x800 scenario is an instance.
C3_OpaqueNormalPaste ==
    /\ C3_Scenario
    /\ OpaquePaste =>
          \A p \in DOMAIN Background.px :
              IF InPasted(p)
              THEN ret.px[p] = PastedOverlay.px[<<p[1] - PastedAt[1], p[2] - PastedAt[2]>>]
              ELSE ret.px[p] = Background.px[p]

\* an opaque normal paste has returned with pixels of the overlay and pixels
\* of the background, the overlay's width being odd
C3_Witness ==
    /\ OpaquePaste
    /\ PastedOverlay.size[1] % 2 = 1
    /\ \E p \in DOMAIN Background.px : InPasted(p) /\ ret.px[p] # Background.px[p]
    /\ \E p \in DOMAIN Background.px : ~InPasted(p)

\* the config is one the engine must reject
InvalidConfig(c) ==
    \/ c.mode \notin {"rect", "perspective"}
    \/ /\ c.mode = "perspective"
       /\ IsPerspectivePlacement(c.placement)
       /\ Len(c.placement.quad_norm) # 4

\* C4: an unsupported mode or a perspective quad without exactly 4 points is
\* rejected with a validation error before any image file is opened, by
\* from_dict and by render_one called with a directly constructed config.
C4_ValidationBeforeOpen ==
    /\ (args.fn = "from_dict" /\ pc = "raised") => (err = "ValueError" /\ opened = <<>>)
    /\ (args.fn = "render_one" /\ InvalidConfig(args.config)) =>
           (pc = "raised" /\ err = "ValueError" /\ opened = <<>>)

\* C5: the raster returned by render_one and by render_one_rect_pixels has
\* exactly the background's width and height, for every placement, aspect
\* policy, rotation and blend mode.
C5_OutputHasBackgroundSize ==
    Rendered =>
        /\ ret.size = Background.size
        /\ DOMAIN ret.px = Pos(Background.size[1], Background.size[2])

\* a render has returned for an overlay wider than the background and centred
\* outside it
C5_Witness ==
    /\ RenderedRect /\ args.fn = "render_one"
    /\ args.config.placement.center_x_norm = <<5, 4>>
    /\ args.config.placement.center_y_norm = <<-1, 4>>
    /\ PastedOverlay.size[1] > Background.size[1]
    /\ ret.size = Background.size

\* C6: apply_opacity clamps the opacity to [0, 1] and rejects nothing: an
\* opacity below 0 gives the result of 0.0 (every alpha 0, colours kept) and
\* an opacity above 1 gives the result of 1.0 (the input raster itself).
C6_OpacityClamped ==
    (pc = "returned" /\ args.fn = "apply_opacity") =>
        /\ err = "none"
        /\ RatLt(args.opacity, <<0, 1>>) =>
              /\ ret = apply_opacity(args.img_rgba, <<0, 1>>)
              /\ \A p \in DOMAIN ret.px :
                    ret.px[p] = <<args.img_rgba.px[p][1], args.img_rgba.px[p][2],
                                  args.img_rgba.px[p][3], 0>>
        /\ RatLt(<<1, 1>>, args.opacity) =>
              /\ ret = apply_opacity(args.img_rgba, <<1, 1>>)
              /\ ret = args.img_rgba

\* apply_opacity has returned for opacity -0.3 on a raster with visible pixels
C6_Witness ==
    /\ pc = "returned" /\ args.fn = "apply_opacity"
    /\ args.opacity = <<-3, 10>>
    /\ \E p \in DOMAIN args.img_rgba.px : args.img_rgba.px[p][4] > 0
    /\ \A p \in DOMAIN ret.px : ret.px[p][4] = 0

\* resize_with_aspect has returned under the given policy
Resized(mode) == pc = "returned" /\ args.fn = "resize_with_aspect" /\ args.mode = mode

\* the size max(1, round(sw*s)) x max(1, round(sh*s)) for the scale s = n / d
ScaledSize(n, d) ==
    <<Max(1, round(args.img.size[1] * n, d)), Max(1, round(args.img.size[2] * n, d))>>

\* the size fits in the target and touches it on one axis up to 1 pixel
ContainFits ==
    /\ ret.size[1] <= args.target_w
    /\ ret.size[2] <= args.target_h
    /\ \/ Abs(ret.size[1] - args.target_w) <= 1
       \/ Abs(ret.size[2] - args.target_h) <= 1

\* s = min(tw/sw, th/sh)
ContainSize ==
    IF args.target_w * args.img.size[2] <= args.target_h * args.img.size[1]
    THEN ScaledSize(args.target_w, args.img.size[1])
    ELSE ScaledSize(args.target_h, args.img.size[2])

\* C7 as stated: for contain and every target (tw, th) the computed size fits
\* in the target, touching it on one axis up to 1 pixel.
C7_ContainFitsEveryTarget ==
    Resized("contain") => (ret.size = ContainSize /\ ContainFits)

\* C7: for contain, every source size with sw, sh >= 1 and every target with
\* tw, th >= 1, the size (w, h) = (max(1, round(sw*s)), max(1, round(sh*s))),
\* s = min(tw/sw, th/sh), has w <= tw and h <= th, with w = tw or h = th up to
\* 1 pixel.
C7_ContainFitsPositiveTarget ==
    Resized("contain") =>
        /\ ret.size = ContainSize
        /\ (args.target_w >= 1 /\ args.target_h >= 1) => ContainFits

\* contain has letterboxed a source into a positive target
C7_Witness ==
    /\ Resized("contain")
    /\ args.target_w >= 1 /\ args.target_h >= 1
    /\ ret.size[1] = args.target_w
    /\ ret.size[2] < args.target_h

\* s = max(tw/sw, th/sh)
CoverSize ==
    IF args.target_w * args.img.size[2] >= args.target_h * args.img.size[1]
    THEN ScaledSize(args.target_w, args.img.size[1])
    ELSE ScaledSize(args.target_h, args.img.size[2])

NearZero(rot) == Abs(rot[1]) * 1000000 < rot[2]

\* C9: rotate_image_rgba with |rotation_deg| < 1e-6 returns its input raster
\* itself; for any other rotation, non-zero multiples of 360 included, it
\* returns a new raster on the expanded canvas (the bounding box of the
\* rotated input), with the input's pixels after a whole turn.
C9_ZeroRotationIsIdentity ==
    (pc = "returned" /\ args.fn = "rotate_image_rgba") =>
        IF NearZero(args.rotation_deg)
        THEN ret = args.img
        ELSE /\ ret.obj # args.img.obj
             /\ ret.size = IF args.rotation_deg[1] % 180 = 0
                           THEN args.img.size
                           ELSE <<args.img.size[2], args.img.size[1]>>
             /\ args.rotation_deg[1] % 360 = 0 => ret.px = args.img.px

\* a whole turn has returned a new raster with the pixels of its input
C9_Witness ==
    /\ pc = "returned" /\ args.fn = "rotate_image_rgba"
    /\ args.rotation_deg = <<360, 1>>
    /\ ret.obj # args.img.obj
    /\ ret.px = args.img.px

\* C10: in every blend mode the output alpha is over_a + base_a*(1 - over_a)
\* in [0, 1], whatever the RGB blend function: as an 8-bit value it is less
\* than one step away from (255*over_a + base_a*(255 - over_a)) / 255; it is
\* never lower than the background alpha, and a fully opaque background gives
\* a fully opaque output.
C10_AlphaIsOver ==
    (pc = "returned" /\ args.fn \in {"blend_normal", "blend_numpy"}) =>
        \A p \in DOMAIN ret.px :
            LET base_a == args.base.px[p][4]
                over_a == args.overlay.px[p][4]
                exact255 == 255 * over_a + base_a * (255 - over_a)
            IN  /\ Abs(255 * ret.px[p][4] - exact255) < 255
                /\ ret.px[p][4] >= base_a
                /\ base_a = 255 => ret.px[p][4] = 255

\* blend_numpy has returned for a half-transparent overlay over a
\* half-transparent base and raised the alpha
C10_Witness ==
    /\ pc = "returned" /\ args.fn = "blend_numpy" /\ args.mode = "multiply"
    /\ args.base.px[<<0, 0>>][4] = 128
    /\ args.overlay.px[<<0, 0>>][4] = 127
    /\ ret.px[<<0, 0>>][4] > 128

\* the blend function f of the specification on 8-bit values B and O, as the
\* numerator of a fraction with denominator 255 * 255
ExactF(mode, B, O) ==
    CASE mode = "multiply" -> B * O
      [] mode = "screen" -> 65025 - (255 - B) * (255 - O)
      [] mode = "overlay" ->
            IF 2 * B <= 255 THEN 2 * B * O ELSE 65025 - 2 * (255 - B) * (255 - O)
      [] mode = "lighten" -> 255 * Max(B, O)
      [] mode = "darken" -> 255 * Min(B, O)

\* 255 * (f*over_a + base*(1 - over_a)) as the numerator of a fraction with
\* denominator 255 * 255
ExactBlend(mode, B, O, A) == ExactF(mode, B, O) * A + 255 * B * (255 - A)

\* blend_numpy has returned for a mode with a blend function of its own
BlendedNumpy == pc = "returned" /\ args.fn = "blend_numpy" /\ args.mode \in NumpyModes

\* C11: for multiply, screen, overlay, lighten and darken every colour channel
\* returned by blend_numpy is an 8-bit value in [0, 255] that is at most one
\* step away from 255 * (f*over_a + base*(1 - over_a)), with f the blend
\* function of the mode and the overlay branch chosen on the base value.
C11_BlendFormulas ==
    BlendedNumpy =>
        \A p \in DOMAIN ret.px : \A i \in 1 .. 3 :
            LET exact == ExactBlend(args.mode, args.base.px[p][i], args.overlay.px[p][i],
                                    args.overlay.px[p][4])
                out == ret.px[p][i]
            IN  /\ out \in 0 .. 255
                /\ 65025 * out - exact >= -65025
                /\ 65025 * out - exact < 65025

\* overlay mode has blended a half-transparent grey overlay over a base with
\* channels on both sides of 0.5, and lightened the middle channel
C11_Witness ==
    /\ BlendedNumpy /\ args.mode = "overlay"
    /\ args.base.px[<<0, 0>>] = <<1, 128, 254, 255>>
    /\ args.overlay.px[<<0, 0>>] = <<200, 200, 200, 128>>
    /\ ret.px[<<0, 0>>] = <<1, 164, 254, 255>>

\* C12: under multiply a black base pixel stays black for every overlay
\* colour and alpha, and an opaque black overlay makes the output black;
\* under screen a white base pixel stays white, and an opaque white overlay
\* makes the output white.
C12_BoundaryFixedPoints ==
    BlendedNumpy =>
        \A p \in DOMAIN ret.px :
            LET base == SubSeq(args.base.px[p], 1, 3)
                over == args.overlay.px[p]
                out == SubSeq(ret.px[p], 1, 3)
            IN  /\ (args.mode = "multiply" /\ base = <<0, 0, 0>>) => out = <<0, 0, 0>>
                /\ (args.mode = "multiply" /\ over = <<0, 0, 0, 255>>) => out = <<0, 0, 0>>
                /\ (args.mode = "screen" /\ base = <<255, 255, 255>>)
                       => out = <<255, 255, 255>>
                /\ (args.mode = "screen" /\ over = <<255, 255, 255, 255>>)
                       => out = <<255, 255, 255>>

\* an opaque black overlay has been multiplied onto a coloured base
C12_Witness ==
    /\ BlendedNumpy /\ args.mode = "multiply"
    /\ args.base.px[<<0, 0>>] = <<1, 128, 254, 128>>
    /\ args.overlay.px[<<0, 0>>] = <<0, 0, 0, 255>>
    /\ SubSeq(ret.px[<<0, 0>>], 1, 3) = <<0, 0, 0>>

\* the call placed the design by a quad
RenderedPerspective ==
    Rendered /\ args.fn = "render_one" /\ args.config.mode = "perspective"

\* the blend mode of the call is none of the six the blend step knows; the
\* rect path compares the lower-cased string, the perspective path the string
\* as given
UnrecognizedBlend ==
    /\ Rendered
    /\ (IF RenderedPerspective THEN CallBlend ELSE lower(CallBlend))
           \notin (NumpyModes \cup {"normal"})

\* the raster the same call returns with blend mode normal
NormalTwin ==
    IF args.fn = "render_one"
    THEN render_one(args.mockup_path, args.design_path,
                    [args.config EXCEPT !.blend_mode = "normal"]).out
    ELSE render_one_rect_pixels(args.mockup_path, args.design_path,
                                args.px.center_x_px, args.px.center_y_px,
                                args.px.target_width_px, args.px.target_height_px,
                                args.px.rotation_deg, args.px.maintain_aspect,
                                args.px.opacity, "normal").out

\* the overlay layer of the call, of the background's size
CallCanvas ==
    IF RenderedPerspective
    THEN apply_opacity(WarpPerspective(ensure_rgba(args.design_path),
                                       args.config.placement.quad_norm,
                                       Background.size[1], Background.size[2]),
                       CallOpacity)
    ELSE LET overlay == apply_opacity(rotate_image_rgba(PastedOverlay, CallRotation),
                                      CallOpacity)
         IN  CanvasComposite(ImageNew(<<"canvas">>, Background.size), overlay,
                             PasteOrigin(<<CallRect.cx, CallRect.cy>>, overlay.size))

\* the raster of the overlay-colour passthrough f = overlay colour
PassthroughTwin == blend_numpy(Background, CallCanvas, CallBlend)

\* C13 as stated: an unrecognized blend mode is composited as normal by
\* render_one_rect_pixels and as the overlay-colour passthrough of blend_numpy
\* by render_one.
C13_FallbackDiverges ==
    UnrecognizedBlend =>
        IF args.fn = "render_one_rect_pixels"
        THEN ret.px = NormalTwin.px
        ELSE ret.px = PassthroughTwin.px

\* C13 amended: an unrecognized blend mode is composited as normal on every
\* render call path, by render_one in rect and in perspective mode and by
\* render_one_rect_pixels: the call returns the raster it returns for blend
\* mode normal.
C13_UnrecognizedIsNormal ==
    UnrecognizedBlend => (ret.size = NormalTwin.size /\ ret.px = NormalTwin.px)

\* render_one has returned for the unrecognized mode "dissolve" and a
\* half-transparent overlay, where the passthrough would give another raster
C13_Witness ==
    /\ UnrecognizedBlend /\ args.fn = "render_one"
    /\ CallBlend = "dissolve" /\ CallOpacity = <<1, 2>>
    /\ ret.px # Background.px
    /\ ret.px # PassthroughTwin.px

\* a perspective render over the full background, blend normal, opacity 1
FullQuadNormal ==
    /\ RenderedPerspective
    /\ args.config.placement.quad_norm = FullQuad
    /\ CallBlend = "normal" /\ CallOpacity = <<1, 1>>

\* the design stretched to the background's size
Stretched ==
    resize_with_aspect(ensure_rgba(args.design_path), Background.size[1],
                       Background.size[2], "stretch")

\* the stretch is one this model computes exactly: the design already has the
\* background's size, or is of one colour
StretchIsExact ==
    \/ args.design_path.size = Background.size
    \/ \A p, q \in DOMAIN args.design_path.px : args.design_path.px[p] = args.design_path.px[q]

\* C14: in perspective mode with the quad [(0,0),(1,0),(1,1),(0,1)], blend
\* normal and opacity 1 the returned raster is the design stretched to the
\* background's size and pasted at (0, 0).
C14_FullQuadIsStretch ==
    (FullQuadNormal /\ StretchIsExact) =>
        ret.px = blend_normal(Background,
                              CanvasComposite(ImageNew(<<"canvas">>, Background.size),
                                              Stretched, <<0, 0>>)).px

\* the object the local variable name of call t should hold: what the
\* statements of render_one_rect_pixels compute from the files alone
Alone(t, name) ==
    LET a == args[t].px
        mockup == ensure_rgba(args[t].mockup_path)
        design == ensure_rgba(args[t].design_path)
        resized == resize_with_aspect(design, a.target_width_px, a.target_height_px,
                                      a.maintain_aspect)
        rotated == rotate_image_rgba(resized, a.rotation_deg)
        overlay == apply_opacity(rotated, a.opacity)
    IN  CASE name = "mockup" -> mockup
          [] name = "design" -> design
          [] name = "resized" -> resized
          [] name = "rotated" -> rotated
          [] name = "overlay" -> overlay
          [] name = "out" ->
                render_one_rect_pixels(args[t].mockup_path, args[t].design_path,
                                       a.center_x_px, a.center_y_px, a.target_width_px,
                                       a.target_height_px, a.rotation_deg,
                                       a.maintain_aspect, a.opacity, a.blend_mode).out

\* C15: whatever the interleaving of two render calls, every object a stage
\* has received or returned still is what the call computes when run alone
\* (no stage modifies the raster it receives, no call touches the other's
\* objects), each call returns the raster it returns alone, and two calls
\* with the same arguments return the same raster.
C15_StatelessEngine ==
    /\ \A t \in Threads :
          /\ \A name \in DOMAIN locals[t] \ {"canvas"} :
                heap[locals[t][name]] = Alone(t, name)
          /\ pc[t] = "returned" => ret[t] = Alone(t, "out")
    /\ (pc[1] = "returned" /\ pc[2] = "returned" /\ args[1] = args[2]) => ret[1] = ret[2]

\* call 2 has returned while call 1 stands between creating and compositing
\* its canvas, both on the same files, call 1 holding one object under three
\* names
C15_Witness ==
    /\ pc[2] = "returned" /\ pc[1] = "canvas"
    /\ args[1].mockup_path = args[2].mockup_path
    /\ args[1].design_path = args[2].design_path
    /\ locals[1].overlay = locals[1].resized
    /\ ret[2].px # ensure_rgba(args[2].mockup_path).px

\* a batch has ended without a stop request
BatchDone == pc = "done" /\ ~batch.stop_requested

\* C16: in every batch driver a failure in one design does not keep the later
\* designs from being processed: a batch that ends without a stop request has
\* gone through all its designs, and every design whose render, save and
\* upload succeeded has its output.
C16_ItemsIndependentlyFailable ==
    BatchDone =>
        /\ batch.visited = 1 .. batch.n
        /\ (batch.started \ batch.failed) \subseteq batch.saved

\* a GUI batch is running or has ended, and a stop has been requested
Stopping == pc # "idle" /\ batch.driver \in GuiDrivers /\ batch.stop_requested

\* no render call is started and no output file, upload or Excel block is
\* produced by the step
NothingProduced ==
    /\ batch'.started = batch.started
    /\ batch'.saved = batch.saved
    /\ batch'.uploaded = batch.uploaded
    /\ batch'.excel = batch.excel

ConfigFields == {"mode", "placement", "blend_mode", "opacity", "maintain_aspect"}

RectFields == {"center_x_norm", "center_y_norm", "width_norm", "height_norm", "rotation_deg"}

\* d without the fields outside known
Known(d, known) == [k \in DOMAIN d \cap known |-> d[k]]

\* the dict with its unknown fields dropped and blend_mode, opacity,
\* maintain_aspect and, for a rect placement, rotation_deg written out with
\* their defaults where they are missing
Explicit(data) ==
    LET p == get(data, "placement", EmptyDict)
        rect == lower(get(data, "mode", "rect")) = "rect"
        placement == IF rect THEN Known(p, RectFields) @@ [rotation_deg |-> <<0, 1>>]
                     ELSE Known(p, {"quad_norm"})
    IN  [placement |-> placement] @@ Known(data, ConfigFields)
            @@ [blend_mode |-> "normal", opacity |-> <<1, 1>>, maintain_aspect |-> "contain"]

\* from_dict has returned a config for a dict with missing or unknown fields
Defaulted ==
    /\ pc = "configured" /\ args.fn = "from_dict"
    /\ args.data # Explicit(args.data)

\* C18: RenderConfig.from_dict gives a missing blend_mode, opacity,
\* maintain_aspect and rotation_deg the defaults normal, 1.0, contain and 0,
\* ignores unknown fields, and returns the config it returns for the dict
\* with those defaults written out, which renders to the same raster.
C18_MissingFieldsTakeDefaults ==
    Defaulted =>
        LET data == args.data
            c == args.config
            e == from_dict(Explicit(data))
        IN  /\ "blend_mode" \notin DOMAIN data => c.blend_mode = "normal"
            /\ "opacity" \notin DOMAIN data => c.opacity = <<1, 1>>
            /\ "maintain_aspect" \notin DOMAIN data => c.maintain_aspect = "contain"
            /\ (c.mode = "rect" /\ "rotation_deg" \notin DOMAIN get(data, "placement", EmptyDict))
                   => c.placement.rotation_deg = <<0, 1>>
            /\ e.err = "none" /\ c = e.cfg
            /\ \A m \in Mockups, d \in Designs :
                   render_one(m, d, c) = render_one(m, d, e.cfg)

\* from_dict has returned for a dict with an unknown field, without
\* blend_mode, maintain_aspect and placement
C18_Witness ==
    /\ Defaulted
    /\ args.data = [mode |-> "rect", opacity |-> <<-3, 10>>, comment |-> "x"]
    /\ args.config.blend_mode = "normal"
    /\ args.config.placement.rotation_deg = <<0, 1>>

\* k is n/d rounded to the nearest integer, ties to the even one
IsRounded(k, n, d) ==
    /\ Abs(2 * n - 2 * k * d) <= d
    /\ Abs(2 * n - 2 * k * d) = d => k % 2 = 0

\* k is max(1, round(n/d))
IsFlooredRound(k, n, d) == IF 2 * n <= d THEN k = 1 ELSE (k >= 1 /\ IsRounded(k, n, d))

\* the rect resolution has returned
Resolved == pc = "returned" /\ args.fn = "render_one" /\ "rp" \in DOMAIN args

\* C19: the rect resolution gives target_w = max(1, round(width_norm*bg_w)),
\* target_h = max(1, round(height_norm*bg_h)) and the centre
\* (round(center_x_norm*bg_w), round(center_y_norm*bg_h)); the target size is
\* at least 1x1 for every width_norm and height_norm, zero and negative ones
\* included.
C19_ResolvedRectAtLeastOne ==
    Resolved =>
        LET rp == args.rp
        IN  /\ ret.tw >= 1 /\ ret.th >= 1
            /\ IsFlooredRound(ret.tw, rp.width_norm[1] * args.mw, rp.width_norm[2])
            /\ IsFlooredRound(ret.th, rp.height_norm[1] * args.mh, rp.height_norm[2])
            /\ IsRounded(ret.cx, rp.center_x_norm[1] * args.mw, rp.center_x_norm[2])
            /\ IsRounded(ret.cy, rp.center_y_norm[1] * args.mh, rp.center_y_norm[2])

\* a negative width_norm and a zero height_norm have been resolved to 1x1,
\* with a centre at a tie
C19_Witness ==
    /\ Resolved
    /\ args.rp.width_norm = <<-1, 4>> /\ args.rp.height_norm = <<0, 1>>
    /\ args.rp.center_x_norm = <<1, 2>> /\ args.mw = 5
    /\ ret.tw = 1 /\ ret.th = 1 /\ ret.cx = 2

\* C20: with anchor topleft the centre is origin + (w/2, h/2) for every
\* integer origin and every width and height, odd ones included; with anchor
\* center it is (x, y); the CLI helper and the GUI fallback give the same
\* centre.
C20_TopLeftCenter ==
    (pc \in {"cli", "gui"} /\ args.fn = "anchor") =>
        /\ args.anchor = "topleft" =>
              (2 * ret[1] = 2 * args.x + args.w /\ 2 * ret[2] = 2 * args.y + args.h)
        /\ args.anchor = "center" => ret = <<args.x, args.y>>
        /\ center_from_anchor(args.anchor, args.x, args.y, args.w, args.h)
              = GuiCenter(args.anchor, args.x, args.y, args.w, args.h)

\* apply_opacity has returned
OpacityApplied == pc = "returned" /\ args.fn = "apply_opacity"

\* the colours of every pixel are those of the input
ColoursKept ==
    /\ ret.size = args.img_rgba.size
    /\ \A p \in DOMAIN ret.px : SubSeq(ret.px[p], 1, 3) = SubSeq(args.img_rgba.px[p], 1, 3)

\* a * clamp(opacity, 0, 1), rounded down
ExactAlpha(a, opacity) ==
    FloorDiv(a * ClampOpacity(opacity)[1], ClampOpacity(opacity)[2])

\* the input comes back when the clamped opacity is at least 0.999
NearOpaqueIsInput ==
    RatLeq(<<999, 1000>>, ClampOpacity(args.opacity)) => ret = args.img_rgba

ExcelSession == pc \in {"open", "done"} /\ batch.driver = "excel" /\ batch.has_wb

\* the data rows of the current workbook
DataRows == batch.row_idx - 5

\* a write that has to rotate
RotatingWrite == pc = "open" /\ batch.enabled /\ batch.has_wb /\ MustRotate(batch)

\* C22: after _excel_open and any sequence of _excel_write_5 calls the number
\* of data rows of the current workbook (_excel_row_idx - 5) is a multiple of
\* M and never exceeds 1950; a block that would cross the threshold rotates
\* first: the row index restarts at 5 (so it is 5 + M after the block) and
\* the file index grows by exactly 1.
C22_RowsWithinThreshold ==
    /\ [](ExcelSession => (DataRows % batch.M = 0 /\ DataRows <= 1950))
    /\ [][(RotatingWrite /\ batch'.blocks = batch.blocks + 1)
            => (batch'.row_idx = 5 + batch.M /\ batch'.file_idx = batch.file_idx + 1)]_vars

\* the batch has ended
ExcelDone == pc = "done" /\ batch.driver = "excel"

\* the blocks held by the saved files
SavedBlocks == UNION {batch.files[n] : n \in DOMAIN batch.files}

\* C23: when the batch ends, every block _excel_write_5 wrote is in a saved
\* workbook file, whichever saves and template reloads failed, and no two
\* saves of the batch went to the same file name.
C23_NoBlockLost ==
    ExcelDone =>
        /\ \A b \in 1 .. batch.blocks : b \in SavedBlocks
        /\ \A i, j \in DOMAIN batch.saves : batch.saves[i] = batch.saves[j] => i = j

\* a GUI batch in which Stop was pressed while an item was being processed
StopWasPressed == pc # "idle" /\ batch.driver \in GuiDrivers /\ batch.pressed_at > 0

\* C24: in both GUI batch modes a Stop click made while item i is processed
\* is seen before item i+1 is examined, so no later item is rendered, and a
\* batch that was stopped does not end in the completed state.
C24_StopSeenBeforeNextItem ==
    StopWasPressed =>
        /\ \A j \in batch.started : j <= batch.pressed_at
        /\ pc = "done" => ~ batch.completed

\* on_export_batch starts and clears the stop flag
Starts == pc = "idle" /\ pc' = "loop"

\* a GUI batch has ended and no Stop was pressed during it
EndedUnstopped == pc = "done" /\ batch.driver \in GuiDrivers /\ batch.pressed_at = 0

\* C25: on_export_batch clears stop_requested before the first item, so a
\* batch started after a Stop click or a Reset All goes through all its items
\* unless Stop is pressed again; the flag is set only by on_stop_clicked and
\* reset_all and cleared only by on_export_batch.
C25_StopFlagClearedAtStart ==
    /\ [][Starts => ~ batch'.stop_requested]_vars
    /\ [](EndedUnstopped => (batch.visited = 1 .. batch.n /\ ~ batch.stop_requested))
    /\ [][(~ batch.stop_requested /\ batch'.stop_requested)
            => (pc = "idle" \/ (pc \in {"events", "done"} /\ batch.pending))]_vars
    /\ [][(batch.stop_requested /\ ~ batch'.stop_requested) => Starts]_vars

\* a folder batch of several items started with the stop flag still set from
\* before and has gone through all of them
C25_Witness ==
    /\ EndedUnstopped /\ batch.n > 1
    /\ batch.driver = "gui_folder" /\ batch.was_stopped
    /\ batch.visited = 1 .. batch.n
    /\ batch.saved = 1 .. batch.n

\* the window exists
Window == app.window = "MockupApp"

\* C26: the Folder and JSON source modes exclude each other: whatever
\* sequence of select_folder_mode, select_json_mode, update_source_mode,
\* _load_settings and reset_all has run, exactly one of the two boxes is
\* checked, the inputs of the unchecked mode are disabled and the inputs of
\* the checked mode are enabled.
C26_SourceModesExclusive ==
    Window =>
        /\ app.source_folder_chk # app.source_json_chk
        /\ \A n \in FolderWidgets : app.enabled[n] = app.source_folder_chk
        /\ \A n \in JsonWidgets : app.enabled[n] = app.source_json_chk

\* JSON mode is on after the settings were loaded and user events handled
C26_Witness ==
    /\ Window /\ pc = "ready" /\ app.events >= 2
    /\ app.source_json_chk /\ app.enabled["json_path_edit"]
    /\ ~ app.enabled["designs_dir_edit"]

\* the flags of the item of a layer follow the lock of the layer
FlagsFollowLock(id, locked) ==
    id # 0 => (app.items[id].movable = ~ locked /\ app.items[id].selectable = ~ locked)

\* C27: after every operation that changes the active layer or a lock flag
\* the transform controls are disabled exactly when the active layer is
\* locked, and the scene item of a layer is movable and selectable exactly
\* when the layer is not locked.
C27_ControlsFollowLock ==
    Window =>
        /\ \A n \in TransformWidgets : app.enabled[n] = ~ ActiveLocked(app)
        /\ FlagsFollowLock(app.overlay_item, app.design_locked)
        /\ FlagsFollowLock(app.wm_item, app.watermark_locked)

\* position, size, rotation, opacity and blend mode of an item
Placement(it) == <<it.pos2, it.w, it.h, it.rot, it.opacity, it.blend_mode>>

\* the active item is there and its layer is locked
LockedActive == Window /\ pc = "ready" /\ app.active_item # 0 /\ ActiveLocked(app)

\* a wheel turn, a double click, the key C or the key R
Interaction == (\E shift, up \in BOOLEAN : Wheel(shift, up)) \/ DoubleClick \/ KeyC \/ KeyR

\* C28: while the active layer is locked no user interaction (wheel, double
\* click, the keys C and R) changes the position, size, rotation, opacity or
\* blend mode of its item.
C28_LockedItemKept ==
    [][(LockedActive /\ Interaction) =>
          Placement(app'.items[app.active_item]) = Placement(app.items[app.active_item])]_vars

\* the active item is None or the item of the design or of the watermark,
\* which is in the scene
ActiveIsCurrent ==
    \/ app.active_item = 0
    \/ /\ app.active_item \in {app.overlay_item, app.wm_item}
       /\ app.items[app.active_item].scene

\* a step of set_active_layer alone
LayerSwitch == \E layer \in {"design", "watermark"} : FocusLayer(layer) \/ MousePress(layer)

\* the values of the spin boxes
Spins(a) == <<a.x_spin, a.y_spin, a.w_spin, a.h_spin, a.rot_spin, a.opacity_spin>>

\* C29: after any sequence of load_design, load_watermark, set_active_layer
\* and reset_all the active item is None or the item now held by
\* overlay_item or wm_item, never one removed from the scene; asking for the
\* watermark layer when there is no watermark leaves the design active; and
\* a change of the active layer changes no spin box value.
C29_ActiveItemIsCurrent ==
    /\ [](Window => ActiveIsCurrent)
    /\ [][(FocusLayer("watermark") /\ app.wm_item = 0)
            => app'.active_item = app.overlay_item]_vars
    /\ [][LayerSwitch => Spins(app') = Spins(app)]_vars

\* render or render-simple has ended
CliEnded == pc = "done" /\ batch.driver \in CliDrivers

\* the command failed: an item raised, or the command ended before its loop
CliFailed == batch.failed # {} \/ batch.rejected # "none"

\* no output was saved after the failure
NothingSavedAfterFailure ==
    /\ batch.rejected # "none" => batch.saved = {}
    /\ \A f \in batch.failed : \A j \in batch.saved : j <= f

\* C30: main always returns an exit code and lets no failure escape: 0 when
\* the subcommand completes, 2 for every failure (bad config, unreadable
\* image, no design files found, failed upload), and no output is saved after
\* the failure.
C30_AlwaysReturnsExitCode ==
    CliEnded =>
        /\ batch.raised = "none"
        /\ batch.exit = IF CliFailed THEN 2 ELSE 0
        /\ NothingSavedAfterFailure

\* C30, amended: main returns 0 when the subcommand completes and 2 for
\* every failure raised as an exception (bad config, unreadable image, failed
\* save or upload); when no design files are found the command calls
\* sys.exit(1) and the SystemExit leaves main, which returns nothing; in
\* every case no output is saved after the failure.
C30_ExitCodes ==
    CliEnded =>
        /\ IF batch.rejected = "no_designs"
           THEN batch.raised = "SystemExit(1)" /\ batch.exit = "none"
           ELSE batch.raised = "none" /\ batch.exit = IF CliFailed THEN 2 ELSE 0
        /\ NothingSavedAfterFailure

\* render found no design files and left main by SystemExit
C30_Witness ==
    /\ CliEnded /\ batch.rejected = "no_designs"
    /\ batch.raised = "SystemExit(1)" /\ batch.saved = {}

====
